---- MODULE Spec2Model ----
(***************************************************************************)
(* Outbound message compiler and media pipeline of itsliaaa/baileys        *)
(* (lib/Utils/messages.js).                                                *)
(*                                                                         *)
(* A JavaScript object is modelled as a sequence of entries [k, v] in      *)
(* insertion order (Object.keys order is observable: the code reads        *)
(* Object.keys(m)[0]).  A property whose value is undefined or null is     *)
(* modelled as an absent entry.                                            *)
(***************************************************************************)
EXTENDS Integers, Sequences, FiniteSets, TLC

VARIABLES
    message,    \* the descriptor handed to generateWAMessageContent
    options,    \* the options / collaborators of that call
    gen,        \* the progress and outcome of generateWAMessageContent
    wrapIn,     \* content handed to the wrap step / normalizeMessageContent
    wrapFlag,   \* the wrapper modifier set on the descriptor of that step
    wrapOut,    \* outcome of the wrap step, then of normalizeMessageContent
    media,      \* the prepareWAMessageMedia call in progress
    cache,      \* options.mediaCache: key -> serialized fragment
    files,      \* temporary files that exist on disk
    calls,      \* number of prepareWAMessageMedia calls started so far
    inputs,     \* the media descriptors the client sends in this run
    pack,       \* the prepareStickerPackMessage call in progress
    norm,       \* normalizeMessageContent's loop on a content graph
    biz,        \* a compiled message and the hint getBizBinaryNode gives for it
    sync,       \* a contact action: processContactAction, then emitSyncActionResults
    dl,         \* the downloadMediaMessage call in progress
    upd,        \* a stored message and the updates applied to it
    node,       \* a binary node, its content and the child index kept for it
    carousel    \* the per-card tasks of a carousel being compiled

vars ==
    <<message, options, gen, wrapIn, wrapFlag, wrapOut, media, cache, files, calls,
      inputs, pack, norm, biz, sync, dl, upd, node, carousel>>

genVars   == <<message, options, gen>>
wrapVars  == <<wrapIn, wrapFlag, wrapOut, norm>>
mediaVars == <<media, cache, files, calls, inputs>>
packVars  == <<pack>>
utilVars  == <<biz, sync, dl, upd, node, carousel>>
coreVars  == <<genVars, wrapVars, mediaVars, packVars>>

-----------------------------------------------------------------------------
(* Bounds of the model *)

MaxTags == 2          \* primary tags set together on one descriptor
MaxPollValues == 2    \* length of poll.values
MaxCalls == 3         \* prepareWAMessageMedia calls made one after the other
MaxNest == 7          \* wrapper levels around a content
MaxShortPack == 3     \* sticker lists enumerated with every content combination
MaxButtons == 2       \* buttons of a nativeFlow list
MaxCards == 2         \* cards of a carousel

-----------------------------------------------------------------------------
(* JavaScript objects as ordered entry lists *)

Keys(o) == [i \in 1..Len(o) |-> o[i].k]

Has(o, key) == \E i \in 1..Len(o) : o[i].k = key

Get(o, key) == o[CHOOSE i \in 1..Len(o) : o[i].k = key].v

Put(o, key, val) ==
    IF Has(o, key)
    THEN [i \in 1..Len(o) |-> IF o[i].k = key THEN [k |-> key, v |-> val] ELSE o[i]]
    ELSE Append(o, [k |-> key, v |-> val])

Del(o, key) == SelectSeq(o, LAMBDA e : e.k # key)

Obj1(key, val) == <<[k |-> key, v |-> val]>>

\* Object.assign(target, src): src's entries, in src order, written onto target
RECURSIVE Assign(_, _)
Assign(target, src) ==
    IF src = <<>> THEN target
    ELSE Assign(Put(target, Head(src).k, Head(src).v), Tail(src))

\* the object literal {}
EmptyRecord == [f \in {} |-> TRUE]

\* a record with one more field (obj.field = val)
With(rec, field, val) == (field :> val) @@ rec

-----------------------------------------------------------------------------
(* Errors *)

NoErr == [status |-> 0, msg |-> "", arg |-> 0]
Boom(msg, status) == [status |-> status, msg |-> msg, arg |-> 0]
BoomArg(msg, status, arg) == [status |-> status, msg |-> msg, arg |-> arg]
TypeError == [status |-> 0, msg |-> "TypeError", arg |-> 0]
UploadError == [status |-> 0, msg |-> "upload failed", arg |-> 0]

-----------------------------------------------------------------------------
(* Descriptors (the `message` argument) and options *)

\* the primary tags, in the order generateWAMessageContent tests them
PrimaryTags ==
    <<"text", "contacts", "location", "react", "delete", "forward",
      "disappearingMessagesInChat", "groupInvite", "stickers", "pin", "keep",
      "flowReply", "buttonReply", "listReply", "ptv", "product", "event", "poll",
      "pollResult", "pollUpdate", "sharePhoneNumber", "requestPhoneNumber",
      "limitSharing", "paymentInviteServiceType", "orderText", "album", "raw">>

PrimaryTagSet == {PrimaryTags[i] : i \in 1..Len(PrimaryTags)}

InteractiveTags ==
    {"buttons", "sections", "templateButtons", "nativeFlow", "cards",
     "requestPaymentFrom", "invoiceNote"}

ContextTags == {"externalAdReply", "mentions", "contextInfo"}

WrapperFlags ==
    {"groupStatus", "interactiveAsTemplate", "ephemeral", "viewOnce", "viewOnceV2",
     "viewOnceV2Extension"}

OtherKeys == {"caption", "footer", "audioFooter", "edit"}

MediaTypes == {"image", "video", "audio", "document", "sticker"}

\* a sticker's bytes: an identity, its container format, and whether its WebP
\* form is larger than 1 MiB
Sticker(id, webp, big) == [id |-> id, webp |-> webp, big |-> big]

DefaultPoll ==
    [selectableCount |-> 0, valuesIsArray |-> TRUE, values |-> <<"a", "b">>,
     toAnnouncementGroup |-> FALSE, pollType |-> 0, correctAnswer |-> FALSE]

PollValues == {[i \in 1..n |-> IF i = 1 THEN "a" ELSE "b"] : n \in 0..MaxPollValues}

Polls ==
    [selectableCount : (0 - 1)..(MaxPollValues + 1), valuesIsArray : BOOLEAN,
     values : PollValues, toAnnouncementGroup : BOOLEAN, pollType : {0, 1},
     correctAnswer : BOOLEAN]

TextContent == Obj1("extendedTextMessage", [text |-> "old"])

\* messages that can be handed to `forward`
ForwardSources ==
    {[content |-> Obj1("conversation", [str |-> "old"]), fromMe |-> FALSE],
     [content |-> TextContent, fromMe |-> TRUE],
     [content |-> Obj1("ephemeralMessage", [message |-> TextContent]), fromMe |-> FALSE]}

\* the message fields a `raw` descriptor carries besides `raw` itself
RawPayloads ==
    {<<>>, TextContent,
     <<[k |-> "extendedTextMessage", v |-> [text |-> "old"]],
       [k |-> "imageMessage", v |-> [url |-> "u"]]>>}

BaseMessage ==
    [keys |-> {}, text |-> "hi", linkPreview |-> "undefined", type |-> "none",
     contacts |-> 1, poll |-> DefaultPoll, businessOwnerJid |-> TRUE,
     pollUpdate |-> [key |-> TRUE, vote |-> TRUE], thumbnailIsBuffer |-> TRUE,
     album |-> <<"image", "video">>, raw |-> TextContent,
     forward |-> [content |-> TextContent, fromMe |-> FALSE], force |-> FALSE,
     stickers |-> <<Sticker(1, TRUE, FALSE)>>, cover |-> TRUE, mediaType |-> "none",
     cards |-> <<[mediaType |-> "image", product |-> FALSE, businessOwnerJid |-> TRUE,
                  text |-> TRUE, caption |-> FALSE]>>,
     nativeFlow |-> [isArray |-> TRUE, items |-> <<>>, buttons |-> <<>>]]

BaseOptions ==
    [getUrlInfo |-> "none", backgroundColor |-> "none", font |-> FALSE,
     sharp |-> TRUE, uploadOk |-> TRUE, reportingToken |-> TRUE]

Texts == {"hi", "see https://a.b"}

TypeValues == {"none", "template", "plain", "pin", "unpin"}

hasNonNullishProperty(msg, key) == key \in msg.keys

hasOptionalProperty(msg, key) == key \in msg.keys

-----------------------------------------------------------------------------
(* Results of the compiler's stages *)

\* a stage's outcome: ok with content m, or thrown with err.  builder names the
\* branch of the primary chain that ran; returned marks the early return of raw
Ok(b, m) == [ok |-> TRUE, builder |-> b, m |-> m, err |-> NoErr, returned |-> FALSE]
Throw(b, e) == [ok |-> FALSE, builder |-> b, m |-> <<>>, err |-> e, returned |-> FALSE]

-----------------------------------------------------------------------------
(* prepareWAMessageMedia: the pure parts *)

MIMETYPE_MAP(mediaType) ==
    CASE mediaType = "image" -> "image/jpeg"
      [] mediaType = "video" -> "video/mp4"
      [] mediaType = "document" -> "application/pdf"
      [] mediaType = "audio" -> "audio/ogg; codecs=opus"
      [] OTHER -> "image/webp"

MessageKey(mediaType) == mediaType \o "Message"

isUrl(src) == src # "buffer"

\* false (modelled as "") unless the source has a url and a cache is configured
cacheableKey(input, hasCache) ==
    IF isUrl(input.src) /\ hasCache THEN input.mediaType \o ":" \o input.src ELSE ""

\* the per-call fields that are spread over the fragment: the descriptor's own
\* fields plus the defaults the function fills in
UploadData(input) ==
    LET base == [mimetype |-> MIMETYPE_MAP(input.mediaType)]
        cap == IF input.caption # "" THEN With(base, "caption", input.caption) ELSE base
        ann == IF input.mediaType \in {"image", "video"}
               THEN With(cap, "annotations", TRUE) ELSE cap
        fnm == IF input.mediaType = "document" THEN With(ann, "fileName", "lib") ELSE ann
    IN  IF input.ptt THEN With(fnm, "ptt", TRUE) ELSE fnm

requiresThumbnailComputation(input) == input.mediaType \in {"image", "video"}
requiresDurationComputation(input) == input.mediaType = "audio"
requiresWaveformProcessing(input) == input.mediaType = "audio" /\ input.ptt
requiresAudioBackground(input, bg) ==
    bg # "none" /\ input.mediaType = "audio" /\ input.ptt
requiresOriginalForSomeProcessing(input) ==
    \/ requiresDurationComputation(input)
    \/ requiresThumbnailComputation(input)
    \/ requiresWaveformProcessing(input)

\* the extraction steps of the second task, in program order
ExtractSteps(input, dest, bg) ==
    (IF requiresThumbnailComputation(input) THEN <<"jpegThumbnail">> ELSE <<>>)
    \o (IF requiresDurationComputation(input) THEN <<"seconds">> ELSE <<>>)
    \o (IF dest = "chat" /\ requiresWaveformProcessing(input) THEN <<"waveform">> ELSE <<>>)
    \o (IF dest = "chat" /\ requiresAudioBackground(input, bg)
        THEN <<"backgroundArgb">> ELSE <<>>)

\* assertColor: the number branch falls off the end of the function
assertColor(color) == IF color = "number" THEN "undefined" ELSE "argb"

RECURSIVE WithAll(_, _)
WithAll(rec, fields) ==
    IF fields = <<>> THEN rec
    ELSE WithAll(With(rec, Head(fields), TRUE), Tail(fields))

\* proto.Message.create({[mediaType + 'Message']: fromObject({...})}), the ptv
\* rename and stickerSentTs; derived lists the fields extraction has set
BuildFragment(input, dest, derived) ==
    LET common == [url |-> "mediaUrl", fileSha256 |-> TRUE, fileLength |-> TRUE]
        keyed == IF dest = "chat"
                 THEN [mediaKey |-> TRUE, fileEncSha256 |-> TRUE,
                       mediaKeyTimestamp |-> TRUE] @@ common
                 ELSE common
        frag == WithAll(UploadData(input) @@ keyed, derived)
        sent == IF input.mediaType = "sticker" THEN With(frag, "stickerSentTs", TRUE)
                ELSE frag
    IN  IF input.ptv /\ input.mediaType = "video"
        THEN Obj1("ptvMessage", sent)
        ELSE Obj1(MessageKey(input.mediaType), sent)

\* WAProto.Message.encode(obj).finish() and proto.Message.decode(buff)
Encode(obj) == [bytes |-> obj]
Decode(buff) == buff.bytes

\* the cache-hit branch: Object.assign(obj[key], {...uploadData, media: undefined})
\* throws a TypeError when the decoded message has no field `${mediaType}Message`
CacheHit(input, buff) ==
    LET obj == Decode(buff)
        key == MessageKey(input.mediaType)
    IN  IF Has(obj, key)
        THEN Ok("media", Put(obj, key, UploadData(input) @@ Get(obj, key)))
        ELSE Throw("media", TypeError)

\* a whole prepareWAMessageMedia call without a cache, as its callers see it
MediaInput(mediaType, caption) ==
    [mediaType |-> mediaType, src |-> "buffer", ptv |-> FALSE, ptt |-> FALSE,
     caption |-> caption]

prepareWAMessageMedia(input, opts) ==
    IF input.mediaType = "none" THEN Throw("media", Boom("Invalid media type", 400))
    ELSE IF ~opts.uploadOk THEN Throw("media", UploadError)
    ELSE Ok("media", BuildFragment(input, "chat",
                                   ExtractSteps(input, "chat", opts.backgroundColor)))

-----------------------------------------------------------------------------
(* prepareStickerPackMessage: the pure parts *)

MaxStickers == 60

\* a validation that already refuses a pack of exactly 60 stickers
ValidatePackOffByOne(stickers, cover) ==
    IF Len(stickers) >= MaxStickers
    THEN Boom("Sticker pack exceeds the maximum limit of 60 stickers", 400)
    ELSE IF Len(stickers) = 0
    THEN Boom("Sticker pack must contain at least one sticker", 400)
    ELSE IF ~cover
    THEN Boom("Sticker pack must contain a cover", 400)
    ELSE NoErr

ValidatePack(stickers, cover) ==
    IF Len(stickers) > MaxStickers
    THEN Boom("Sticker pack exceeds the maximum limit of 60 stickers", 400)
    ELSE IF Len(stickers) = 0
    THEN Boom("Sticker pack must contain at least one sticker", 400)
    ELSE IF ~cover
    THEN Boom("Sticker pack must contain a cover", 400)
    ELSE NoErr

\* the WebP buffer a sticker ends up as: kept when already WebP, else converted
\* by sharp (the converted image of content id is the WebP image of content id)
WebpBuffer(sticker) == [id |-> sticker.id, big |-> sticker.big]

CanConvert(sticker, sharp) == sticker.webp \/ sharp

\* a file name that does not depend on the content
FileNameFixed(webpBuffer) == 1

\* sha256(webpBuffer) base64 + '.webp': one name per distinct buffer content
FileName(webpBuffer) == webpBuffer.id

TrayIconFileName == 0

\* the error of sticker task i, or NoErr
ConvertError(sticker, i, sharp) ==
    IF ~CanConvert(sticker, sharp)
    THEN Boom("No image processing library (sharp) available", 500)
    ELSE IF WebpBuffer(sticker).big
    THEN BoomArg("Sticker exceeds the 1MB size limit", 400, i)
    ELSE NoErr

\* stickerData after the tasks in `done` have stored their files
StickerData(stickers, done) == {FileName(WebpBuffer(stickers[i])) : i \in done}

\* the stickers metadata list, in input order (Promise.all keeps the order)
StickerMetadata(stickers) ==
    [i \in 1..Len(stickers) |-> [fileName |-> FileName(WebpBuffer(stickers[i]))]]

\* the whole call as generateWAMessageContent sees it
PackOutcome(stickers, cover, sharp, uploadOk) ==
    LET v == ValidatePack(stickers, cover)
        bad == {i \in 1..Len(stickers) : ConvertError(stickers[i], i, sharp) # NoErr}
        first == CHOOSE i \in bad : \A j \in bad : i <= j
    IN  IF v # NoErr THEN Throw("stickers", v)
        ELSE IF bad # {} THEN Throw("stickers", ConvertError(stickers[first], first - 1, sharp))
        ELSE IF ~uploadOk THEN Throw("stickers", UploadError)
        ELSE Ok("stickers",
                Obj1("stickerPackMessage",
                     [stickers |-> StickerMetadata(stickers),
                      trayIconFileName |-> TrayIconFileName]))

-----------------------------------------------------------------------------
(* normalizeMessageContent *)

\* the wrapper keys, in the order getFutureProofMessage tests them
FutureProofKeys ==
    <<"associatedChildMessage", "botForwardedMessage", "botInvokeMessage",
      "botTaskMessage", "documentWithCaptionMessage", "editedMessage",
      "ephemeralMessage", "eventCoverImage", "groupMentionedMessage",
      "groupStatusMentionMessage", "groupStatusMessage", "groupStatusMessageV2",
      "limitSharingMessage", "lottieStickerMessage", "pollCreationMessageV4",
      "pollCreationOptionImageMessage", "questionMessage", "questionReplyMessage",
      "statusAddYours", "statusMentionMessage", "viewOnceMessage",
      "viewOnceMessageV2", "viewOnceMessageV2Extension">>

UnwrapLimit == 5

hasFutureProofMessage(content) ==
    \E i \in 1..Len(FutureProofKeys) : Has(content, FutureProofKeys[i])

\* the first wrapper of the content, in FutureProofKeys order
getFutureProofMessage(content) ==
    LET i == CHOOSE i \in 1..Len(FutureProofKeys) :
                 /\ Has(content, FutureProofKeys[i])
                 /\ \A j \in 1..(i - 1) : ~Has(content, FutureProofKeys[j])
    IN  Get(content, FutureProofKeys[i])

\* a loop whose bound lets no iteration run
NormalizeLoopNoIteration(content, i) == content

\* the loop `for (let i = 0; i < 5; i++)`, entered with counter i
RECURSIVE NormalizeLoop(_, _)
NormalizeLoop(content, i) ==
    IF i >= UnwrapLimit \/ ~hasFutureProofMessage(content) THEN content
    ELSE NormalizeLoop(getFutureProofMessage(content).message, i + 1)

normalizeMessageContent(content) == NormalizeLoop(content, 0)

\* the number of unwrap iterations normalizeMessageContent performs
RECURSIVE UnwrapSteps(_, _)
UnwrapSteps(content, i) ==
    IF i >= UnwrapLimit \/ ~hasFutureProofMessage(content) THEN i
    ELSE UnwrapSteps(getFutureProofMessage(content).message, i + 1)

-----------------------------------------------------------------------------
(* generateForwardMessageContent *)

generateForwardMessageContent(fwd, forceForward) ==
    LET content == normalizeMessageContent(fwd.content)
        key0 == content[1].k
        old == content[1].v
        prev == IF "contextInfo" \in DOMAIN old /\ "forwardingScore" \in DOMAIN old.contextInfo
                THEN old.contextInfo.forwardingScore ELSE 0
        score == prev + (IF fwd.fromMe /\ ~forceForward THEN 0 ELSE 1)
        key == IF key0 = "conversation" THEN "extendedTextMessage" ELSE key0
        val == IF key0 = "conversation" THEN [text |-> old.str] ELSE old
        ctx == IF score > 0 THEN [forwardingScore |-> score, isForwarded |-> TRUE]
               ELSE EmptyRecord
    IN  IF content = <<>> THEN Throw("forward", TypeError)
        ELSE Ok("forward", Put(Del(content, "conversation"), key, With(val, "contextInfo", ctx)))

-----------------------------------------------------------------------------
(* generateWAMessageContent: the primary chain *)

URL_REGEX_matches(text) == text = "see https://a.b"

\* generateLinkPreviewIfRequired: "info" when a preview was resolved, "none" when
\* there is no url, no resolver, or the resolver failed (the failure is swallowed)
generateLinkPreviewIfRequired(text, opts) ==
    IF opts.getUrlInfo = "ok" /\ URL_REGEX_matches(text) THEN "info" ELSE "none"

\* a text builder that sets a font whatever the options say
TextBuilderAlwaysFont(msg, opts) ==
    LET urlInfo == IF msg.linkPreview = "undefined"
                   THEN generateLinkPreviewIfRequired(msg.text, opts)
                   ELSE msg.linkPreview
        e0 == [text |-> msg.text]
        e1 == IF urlInfo = "info" THEN [previewType |-> 0, title |-> "title"] @@ e0 ELSE e0
        e2 == IF opts.backgroundColor # "none" /\ assertColor(opts.backgroundColor) # "undefined"
              THEN With(e1, "backgroundArgb", TRUE) ELSE e1
        e3 == With(e2, "font", TRUE)
    IN  Ok("text", Obj1("extendedTextMessage", e3))

TextBuilder(msg, opts) ==
    LET urlInfo == IF msg.linkPreview = "undefined"
                   THEN generateLinkPreviewIfRequired(msg.text, opts)
                   ELSE msg.linkPreview
        e0 == [text |-> msg.text]
        e1 == IF urlInfo = "info" THEN [previewType |-> 0, title |-> "title"] @@ e0 ELSE e0
        e2 == IF opts.backgroundColor # "none" /\ assertColor(opts.backgroundColor) # "undefined"
              THEN With(e1, "backgroundArgb", TRUE) ELSE e1
        e3 == IF opts.font THEN With(e2, "font", TRUE) ELSE e2
    IN  Ok("text", Obj1("extendedTextMessage", e3))

ContactsBuilder(msg) ==
    IF msg.contacts = 0 THEN Throw("contacts", Boom("require atleast 1 contact", 400))
    ELSE IF msg.contacts = 1 THEN Ok("contacts", Obj1("contactMessage", [vcard |-> 1]))
    ELSE Ok("contacts", Obj1("contactsArrayMessage", [contacts |-> msg.contacts]))

prepareDisappearingMessageSettingContent ==
    Obj1("ephemeralMessage",
         [message |-> Obj1("protocolMessage", [type |-> "EPHEMERAL_SETTING"])])

PinBuilder(msg) ==
    Ok("pin", <<[k |-> "pinInChatMessage", v |-> [type |-> msg.type]],
                [k |-> "messageContextInfo",
                 v |-> [messageAddOnDurationInSecs |->
                            IF msg.type = "pin" THEN 86400 ELSE 0]]>>)

\* switch (message.type) with the cases 'template' and 'plain' and no default
ButtonReplyBuilder(msg) ==
    IF msg.type = "template"
    THEN Ok("buttonReply", Obj1("templateButtonReplyMessage", [selectedId |-> "id"]))
    ELSE IF msg.type = "plain"
    THEN Ok("buttonReply", Obj1("buttonsResponseMessage", [selectedButtonId |-> "id"]))
    ELSE Ok("buttonReply", <<>>)

PtvBuilder(msg, opts) ==
    LET r == prepareWAMessageMedia(MediaInput("video", ""), opts)
    IN  IF r.ok THEN Ok("ptv", Obj1("ptvMessage", Get(r.m, "videoMessage")))
        ELSE Throw("ptv", r.err)

prepareProductMessage(msg, opts) ==
    LET r == prepareWAMessageMedia(MediaInput("image", ""), opts)
    IN  IF ~msg.businessOwnerJid
        THEN Throw("product", Boom("\"businessOwnerJid\" is missing from the content", 400))
        ELSE IF ~r.ok THEN Throw("product", r.err)
        ELSE Ok("product", Obj1("productMessage", [product |-> Get(r.m, "imageMessage")]))

EventBuilder(msg) ==
    Ok("event", <<[k |-> "eventMessage", v |-> [name |-> "event"]],
                  [k |-> "messageContextInfo", v |-> [messageSecret |-> TRUE]]>>)

\* a poll builder that tests only the lower bound of selectableCount
PollBuilderNoUpperBound(msg) ==
    LET poll == msg.poll
        n == Len(poll.values)
        pollCreationMessage ==
            [name |-> "poll", selectableOptionsCount |-> poll.selectableCount,
             options |-> poll.values]
        secret == [k |-> "messageContextInfo", v |-> [messageSecret |-> TRUE]]
        Made(key, val) == Ok("poll", <<secret, [k |-> key, v |-> val]>>)
    IN  IF ~poll.valuesIsArray THEN Throw("poll", Boom("Invalid poll values", 400))
        ELSE IF poll.selectableCount < 0
        THEN Throw("poll",
                   BoomArg("poll.selectableCount in poll should be >= 0 and <= ", 400, n))
        ELSE IF poll.toAnnouncementGroup
        THEN Made("pollCreationMessageV2", pollCreationMessage)
        ELSE IF poll.pollType = 1
        THEN IF ~poll.correctAnswer
             THEN Throw("poll", Boom("No \"correctAnswer\" provided for quiz", 400))
             ELSE Made("pollCreationMessageV5",
                       [pollCreationMessage EXCEPT !.selectableOptionsCount = 1])
        ELSE IF poll.selectableCount = 1
        THEN Made("pollCreationMessageV3", pollCreationMessage)
        ELSE Made("pollCreationMessage", pollCreationMessage)

PollBuilder(msg) ==
    LET poll == msg.poll
        n == Len(poll.values)
        pollCreationMessage ==
            [name |-> "poll", selectableOptionsCount |-> poll.selectableCount,
             options |-> poll.values]
        secret == [k |-> "messageContextInfo", v |-> [messageSecret |-> TRUE]]
        Made(key, val) == Ok("poll", <<secret, [k |-> key, v |-> val]>>)
    IN  IF ~poll.valuesIsArray THEN Throw("poll", Boom("Invalid poll values", 400))
        ELSE IF poll.selectableCount < 0 \/ poll.selectableCount > n
        THEN Throw("poll",
                   BoomArg("poll.selectableCount in poll should be >= 0 and <= ", 400, n))
        ELSE IF poll.toAnnouncementGroup
        THEN Made("pollCreationMessageV2", pollCreationMessage)
        ELSE IF poll.pollType = 1
        THEN IF ~poll.correctAnswer
             THEN Throw("poll", Boom("No \"correctAnswer\" provided for quiz", 400))
             ELSE Made("pollCreationMessageV5",
                       [pollCreationMessage EXCEPT !.selectableOptionsCount = 1])
        ELSE IF poll.selectableCount = 1
        THEN Made("pollCreationMessageV3", pollCreationMessage)
        ELSE Made("pollCreationMessage", pollCreationMessage)

PollUpdateBuilder(msg) ==
    IF ~msg.pollUpdate.key
    THEN Throw("pollUpdate", Boom("Message key is required", 400))
    ELSE IF ~msg.pollUpdate.vote
    THEN Throw("pollUpdate", Boom("Encrypted vote payload is required", 400))
    ELSE Ok("pollUpdate", Obj1("pollUpdateMessage", [vote |-> TRUE]))

OrderBuilder(msg) ==
    IF ~msg.thumbnailIsBuffer
    THEN Throw("orderText", Boom("Must provide thumbnail buffer in order message", 400))
    ELSE Ok("orderText", Obj1("orderMessage", [itemCount |-> 1]))

AlbumCount(album, kind) == Cardinality({i \in 1..Len(album) : album[i] = kind})

AlbumBuilder(msg) ==
    LET videoCount == AlbumCount(msg.album, "video")
        imageCount == AlbumCount(msg.album, "image")
    IN  IF videoCount + imageCount < 2
        THEN Throw("album", Boom("Minimum provide 2 media to upload album message", 400))
        ELSE Ok("album", Obj1("albumMessage",
                              [expectedImageCount |-> imageCount,
                               expectedVideoCount |-> videoCount]))

MediaBuilder(msg, opts) ==
    prepareWAMessageMedia(
        MediaInput(msg.mediaType, IF "caption" \in msg.keys THEN "caption" ELSE ""), opts)

\* the if / else-if chain of lines 643-985, from its second test on
PrimaryAfterText(msg, opts) ==
    IF hasNonNullishProperty(msg, "contacts") THEN ContactsBuilder(msg)
    ELSE IF hasNonNullishProperty(msg, "location")
    THEN Ok("location", Obj1("locationMessage", [degreesLatitude |-> 0]))
    ELSE IF hasNonNullishProperty(msg, "react")
    THEN Ok("react", Obj1("reactionMessage", [senderTimestampMs |-> TRUE]))
    ELSE IF hasNonNullishProperty(msg, "delete")
    THEN Ok("delete", Obj1("protocolMessage", [type |-> "REVOKE"]))
    ELSE IF hasNonNullishProperty(msg, "forward")
    THEN generateForwardMessageContent(msg.forward, msg.force)
    ELSE IF hasNonNullishProperty(msg, "disappearingMessagesInChat")
    THEN Ok("disappearingMessagesInChat", prepareDisappearingMessageSettingContent)
    ELSE IF hasNonNullishProperty(msg, "groupInvite")
    THEN Ok("groupInvite", Obj1("groupInviteMessage", [groupJid |-> "jid"]))
    ELSE IF hasNonNullishProperty(msg, "stickers")
    THEN PackOutcome(msg.stickers, msg.cover, opts.sharp, opts.uploadOk)
    ELSE IF hasNonNullishProperty(msg, "pin") THEN PinBuilder(msg)
    ELSE IF hasNonNullishProperty(msg, "keep")
    THEN Ok("keep", Obj1("keepInChatMessage", [keepType |-> msg.type]))
    ELSE IF hasNonNullishProperty(msg, "flowReply")
    THEN Ok("flowReply", Obj1("interactiveResponseMessage", [name |-> "flow"]))
    ELSE IF hasNonNullishProperty(msg, "buttonReply") THEN ButtonReplyBuilder(msg)
    ELSE IF hasNonNullishProperty(msg, "listReply")
    THEN Ok("listReply", Obj1("listResponseMessage", [title |-> "title"]))
    ELSE IF hasOptionalProperty(msg, "ptv") THEN PtvBuilder(msg, opts)
    ELSE IF hasNonNullishProperty(msg, "product") THEN prepareProductMessage(msg, opts)
    ELSE IF hasNonNullishProperty(msg, "event") THEN EventBuilder(msg)
    ELSE IF hasNonNullishProperty(msg, "poll") THEN PollBuilder(msg)
    ELSE IF hasNonNullishProperty(msg, "pollResult")
    THEN Ok("pollResult", Obj1("pollResultSnapshotMessage", [name |-> "poll"]))
    ELSE IF hasNonNullishProperty(msg, "pollUpdate") THEN PollUpdateBuilder(msg)
    ELSE IF hasNonNullishProperty(msg, "sharePhoneNumber")
    THEN Ok("sharePhoneNumber", Obj1("protocolMessage", [type |-> "SHARE_PHONE_NUMBER"]))
    ELSE IF hasNonNullishProperty(msg, "requestPhoneNumber")
    THEN Ok("requestPhoneNumber", Obj1("requestPhoneNumberMessage", EmptyRecord))
    ELSE IF hasNonNullishProperty(msg, "limitSharing")
    THEN Ok("limitSharing", Obj1("protocolMessage", [type |-> "LIMIT_SHARING"]))
    ELSE IF hasNonNullishProperty(msg, "paymentInviteServiceType")
    THEN Ok("paymentInviteServiceType", Obj1("paymentInviteMessage", [serviceType |-> 1]))
    ELSE IF hasNonNullishProperty(msg, "orderText") THEN OrderBuilder(msg)
    ELSE IF hasNonNullishProperty(msg, "album") THEN AlbumBuilder(msg)
    ELSE IF hasNonNullishProperty(msg, "raw")
    THEN [Ok("raw", msg.raw) EXCEPT !.returned = TRUE]
    ELSE MediaBuilder(msg, opts)

\* a chain that tests poll before text
BuildPrimaryPollFirst(msg, opts) ==
    IF hasNonNullishProperty(msg, "poll") THEN PollBuilder(msg)
    ELSE IF hasNonNullishProperty(msg, "text") THEN TextBuilder(msg, opts)
    ELSE PrimaryAfterText(msg, opts)

\* the if / else-if chain of lines 643-985
BuildPrimary(msg, opts) ==
    IF hasNonNullishProperty(msg, "text") THEN TextBuilder(msg, opts)
    ELSE PrimaryAfterText(msg, opts)

-----------------------------------------------------------------------------
(* generateWAMessageContent: interactive messages (lines 987-1262) *)

hasValidInteractiveHeader(m) ==
    \/ Has(m, "imageMessage") \/ Has(m, "videoMessage") \/ Has(m, "documentMessage")
    \/ Has(m, "productMessage") \/ Has(m, "locationMessage")

hasValidCarouselHeader(m) ==
    Has(m, "imageMessage") \/ Has(m, "videoMessage") \/ Has(m, "productMessage")

\* Object.assign(record, m): every entry of m becomes a field of the record
RECURSIVE AssignFields(_, _)
AssignFields(rec, m) ==
    IF m = <<>> THEN rec
    ELSE AssignFields(With(rec, Head(m).k, Head(m).v), Tail(m))

ButtonsStage(r, msg) ==
    LET b0 == [buttons |-> TRUE]
        b1 == IF hasOptionalProperty(msg, "text")
              THEN [contentText |-> msg.text, headerType |-> "EMPTY"] @@ b0
              ELSE AssignFields(
                       With(IF hasOptionalProperty(msg, "caption")
                            THEN With(b0, "contentText", "caption") ELSE b0,
                            "headerType", r.m[1].k),
                       r.m)
        b2 == IF hasOptionalProperty(msg, "footer") THEN With(b1, "footerText", "footer") ELSE b1
    IN  IF ~hasOptionalProperty(msg, "text") /\ r.m = <<>>
        THEN [r EXCEPT !.ok = FALSE, !.m = <<>>, !.err = TypeError]
        ELSE [r EXCEPT !.m = Obj1("buttonsMessage", b2)]

TemplateButtonsStage(r, msg) ==
    LET h0 == [hydratedButtons |-> TRUE, templateId |-> "template"]
        h1 == IF hasOptionalProperty(msg, "text")
              THEN With(h0, "hydratedContentText", msg.text)
              ELSE AssignFields(
                       IF hasOptionalProperty(msg, "caption")
                       THEN With(h0, "hydratedContentText", "caption") ELSE h0,
                       r.m)
        h2 == IF hasOptionalProperty(msg, "footer")
              THEN With(h1, "hydratedFooterText", "footer") ELSE h1
    IN  [r EXCEPT !.m = Obj1("templateMessage",
                             [hydratedFourRowTemplate |-> h2, hydratedTemplate |-> h2])]

\* a property of a button: absent, null, a falsy value or a truthy one
PropertyValues == {"absent", "null", "empty", "v"}

Button(text, id, copy, url, call) ==
    [text |-> text, id |-> id, copy |-> copy, url |-> url, call |-> call]

\* hasOptionalProperty(button, key) && !!button[key]
ButtonHasTruthy(button, key) ==
    /\ button[key] # "absent"
    /\ button[key] # "null"
    /\ button[key] # "empty"

\* button.text || button.buttonText || fallback
DisplayText(button, fallback) == IF button.text # "" THEN button.text ELSE fallback

\* a callback that tests copy before id
NativeFlowButtonCopyFirst(button) ==
    IF ButtonHasTruthy(button, "copy")
    THEN [name |-> "cta_copy",
          buttonParamsJson |-> [display_text |-> DisplayText(button, "Copy"),
                                copy_code |-> button.copy]]
    ELSE IF ButtonHasTruthy(button, "id")
    THEN [name |-> "quick_reply",
          buttonParamsJson |-> [display_text |-> DisplayText(button, "Click"),
                                id |-> button.id]]
    ELSE button

\* the callback of correctedField.map
NativeFlowButton(button) ==
    IF ButtonHasTruthy(button, "id")
    THEN [name |-> "quick_reply",
          buttonParamsJson |-> [display_text |-> DisplayText(button, "Click"),
                                id |-> button.id]]
    ELSE IF ButtonHasTruthy(button, "copy")
    THEN [name |-> "cta_copy",
          buttonParamsJson |-> [display_text |-> DisplayText(button, "Copy"),
                                copy_code |-> button.copy]]
    ELSE IF ButtonHasTruthy(button, "url")
    THEN [name |-> "cta_url",
          buttonParamsJson |-> [display_text |-> DisplayText(button, "Visit"),
                                url |-> button.url, merchant_url |-> button.url]]
    ELSE IF ButtonHasTruthy(button, "call")
    THEN [name |-> "cta_call",
          buttonParamsJson |-> [display_text |-> DisplayText(button, "Call"),
                                phone_number |-> button.call]]
    ELSE button

\* Array.isArray(buttons) ? buttons : buttons.buttons
correctedField(msg) ==
    IF msg.nativeFlow.isArray THEN msg.nativeFlow.items ELSE msg.nativeFlow.buttons

prepareNativeFlowButtons(msg) ==
    [buttons |-> [i \in 1..Len(correctedField(msg)) |->
                     NativeFlowButton(correctedField(msg)[i])],
     messageParamsJson |->
         (IF hasOptionalProperty(msg, "couponCode") THEN {"limited_time_offer"} ELSE {})
         \cup (IF hasOptionalProperty(msg, "optionText") THEN {"bottom_sheet"} ELSE {}),
     messageVersion |-> 1]

\* the text / caption / header part of the nativeFlow branch; without text the
\* header is built only under a caption, and Object.assign(header, m) follows
NativeFlowStage(r, msg, opts) ==
    LET i0 == [nativeFlowMessage |-> prepareNativeFlowButtons(msg)]
        header == AssignFields([title |-> "", hasMediaAttachment |-> TRUE], r.m)
        i1 == IF hasOptionalProperty(msg, "text") THEN With(i0, "body", msg.text)
              ELSE [header |-> header, body |-> "caption"] @@ i0
        foot == prepareWAMessageMedia(MediaInput("audio", ""), opts)
        i2 == IF hasOptionalProperty(msg, "audioFooter") \/ hasOptionalProperty(msg, "footer")
              THEN With(i1, "footer", "footer") ELSE i1
        Fail(e) == [r EXCEPT !.ok = FALSE, !.m = <<>>, !.err = e]
    IN  IF ~hasOptionalProperty(msg, "text") /\ hasOptionalProperty(msg, "caption")
           /\ ~hasValidInteractiveHeader(r.m)
        THEN Fail(Boom("Invalid media type for interactive message header", 400))
        ELSE IF ~hasOptionalProperty(msg, "text") /\ ~hasOptionalProperty(msg, "caption")
        THEN Fail(TypeError)
        ELSE IF hasOptionalProperty(msg, "audioFooter") /\ ~foot.ok
        THEN Fail(foot.err)
        ELSE [r EXCEPT !.m = Obj1("interactiveMessage", i2)]

\* one card of a carousel: "" when it compiles, else the error it raises
CardError(card, opts) ==
    LET head == IF card.product THEN prepareProductMessage(card, opts)
                ELSE prepareWAMessageMedia(MediaInput(card.mediaType, ""), opts)
        carouselHeader == IF head.ok THEN head.m ELSE <<>>
    IN  IF card.product /\ ~head.ok THEN head.err
        ELSE IF ~hasValidCarouselHeader(carouselHeader)
        THEN Boom("Invalid media type for carousel card", 400)
        ELSE IF ~card.text /\ ~card.caption THEN TypeError
        ELSE NoErr

CardsStage(r, msg, opts) ==
    LET bad == {i \in 1..Len(msg.cards) : CardError(msg.cards[i], opts) # NoErr}
        first == CHOOSE i \in bad : \A j \in bad : i <= j
        i0 == [carouselMessage |-> Len(msg.cards)]
        i1 == IF hasOptionalProperty(msg, "text") THEN With(i0, "body", msg.text) ELSE i0
        i2 == IF hasOptionalProperty(msg, "footer") THEN With(i1, "footer", "footer") ELSE i1
    IN  IF bad # {}
        THEN [r EXCEPT !.ok = FALSE, !.m = <<>>, !.err = CardError(msg.cards[first], opts)]
        ELSE [r EXCEPT !.m = Obj1("interactiveMessage", i2)]

\* a second chain that tests sections before buttons
InteractiveBuilderSectionsFirst(r, msg) ==
    IF ~r.ok \/ r.returned THEN <<>>
    ELSE IF hasNonNullishProperty(msg, "sections") THEN <<"sections">>
    ELSE IF hasNonNullishProperty(msg, "buttons") THEN <<"buttons">>
    ELSE IF hasNonNullishProperty(msg, "templateButtons") THEN <<"templateButtons">>
    ELSE IF hasNonNullishProperty(msg, "nativeFlow") THEN <<"nativeFlow">>
    ELSE IF hasNonNullishProperty(msg, "cards") THEN <<"cards">>
    ELSE IF hasNonNullishProperty(msg, "requestPaymentFrom") THEN <<"requestPaymentFrom">>
    ELSE IF hasNonNullishProperty(msg, "invoiceNote") THEN <<"invoiceNote">>
    ELSE <<>>

\* the branch of the second chain (lines 987-1262) that runs after the primary
\* builder has returned its content: none when that builder threw or returned
\* from the call
InteractiveBuilder(r, msg) ==
    IF ~r.ok \/ r.returned THEN <<>>
    ELSE IF hasNonNullishProperty(msg, "buttons") THEN <<"buttons">>
    ELSE IF hasNonNullishProperty(msg, "sections") THEN <<"sections">>
    ELSE IF hasNonNullishProperty(msg, "templateButtons") THEN <<"templateButtons">>
    ELSE IF hasNonNullishProperty(msg, "nativeFlow") THEN <<"nativeFlow">>
    ELSE IF hasNonNullishProperty(msg, "cards") THEN <<"cards">>
    ELSE IF hasNonNullishProperty(msg, "requestPaymentFrom") THEN <<"requestPaymentFrom">>
    ELSE IF hasNonNullishProperty(msg, "invoiceNote") THEN <<"invoiceNote">>
    ELSE <<>>

RequestPaymentStage(r, msg) ==
    IF Has(r.m, "extendedTextMessage") \/ Has(r.m, "stickerMessage")
    THEN [r EXCEPT !.m = Obj1("requestPaymentMessage", [noteMessage |-> r.m])]
    ELSE [r EXCEPT !.ok = FALSE, !.m = <<>>,
                   !.err = Boom("Invalid message type for request payment note message", 400)]

InvoiceStage(r, msg) ==
    IF r.m = <<>> THEN [r EXCEPT !.ok = FALSE, !.err = TypeError]
    ELSE IF Has(r.m, "imageMessage") \/ Has(r.m, "documentMessage")
    THEN [r EXCEPT !.m = Obj1("invoiceMessage",
                              [attachmentType |-> IF r.m[1].k = "documentMessage"
                                                  THEN "PDF" ELSE "IMAGE"])]
    ELSE [r EXCEPT !.ok = FALSE, !.m = <<>>,
                   !.err = Boom("Invalid media type for invoice message", 400)]

\* the second chain: the body of the branch that InteractiveBuilder selects
InteractiveStage(r, msg, opts) ==
    IF InteractiveBuilder(r, msg) = <<>> THEN r
    ELSE IF InteractiveBuilder(r, msg) = <<"buttons">> THEN ButtonsStage(r, msg)
    ELSE IF InteractiveBuilder(r, msg) = <<"sections">>
    THEN [r EXCEPT !.m = Obj1("listMessage", [listType |-> "SINGLE_SELECT"])]
    ELSE IF InteractiveBuilder(r, msg) = <<"templateButtons">>
    THEN TemplateButtonsStage(r, msg)
    ELSE IF InteractiveBuilder(r, msg) = <<"nativeFlow">>
    THEN NativeFlowStage(r, msg, opts)
    ELSE IF InteractiveBuilder(r, msg) = <<"cards">> THEN CardsStage(r, msg, opts)
    ELSE IF InteractiveBuilder(r, msg) = <<"requestPaymentFrom">>
    THEN RequestPaymentStage(r, msg)
    ELSE InvoiceStage(r, msg)

-----------------------------------------------------------------------------
(* generateWAMessageContent: context metadata (lines 1264-1315) *)

\* messageType = Object.keys(m)[0]; key = m[messageType]; the field is merged into
\* key.contextInfo, which is created when absent
SetContext(m, field, val) ==
    LET key == m[1].v
        ctx == IF "contextInfo" \in DOMAIN key THEN key.contextInfo ELSE EmptyRecord
    IN  [m EXCEPT ![1].v = With(key, "contextInfo", With(ctx, field, val))]

\* `'contextInfo' in key` throws when m has no key at all
ContextStep(r, msg, tag, field) ==
    IF ~r.ok \/ r.returned \/ ~hasOptionalProperty(msg, tag) THEN r
    ELSE IF r.m = <<>> THEN [r EXCEPT !.ok = FALSE, !.err = TypeError]
    ELSE [r EXCEPT !.m = SetContext(r.m, field, TRUE)]

ContextStage(r, msg) ==
    ContextStep(
        ContextStep(ContextStep(r, msg, "externalAdReply", "externalAdReply"),
                    msg, "mentions", "mentionedJid"),
        msg, "contextInfo", "custom")

-----------------------------------------------------------------------------
(* generateWAMessageContent: wrappers (lines 1316-1361) *)

WrapperKey(flag) ==
    CASE flag = "groupStatus" -> "groupStatusMessageV2"
      [] flag = "ephemeral" -> "ephemeralMessage"
      [] flag = "viewOnce" -> "viewOnceMessage"
      [] flag = "viewOnceV2" -> "viewOnceMessageV2"
      [] OTHER -> "viewOnceMessageV2Extension"

Wrap(flag, m) == Obj1(WrapperKey(flag), [message |-> m])

\* groupStatus, else interactiveAsTemplate
InnerWrapStep(r, msg) ==
    IF ~r.ok \/ r.returned THEN r
    ELSE IF hasOptionalProperty(msg, "groupStatus")
    THEN IF r.m = <<>> THEN [r EXCEPT !.ok = FALSE, !.err = TypeError]
         ELSE [r EXCEPT !.m = Wrap("groupStatus", SetContext(r.m, "isGroupStatus", TRUE))]
    ELSE IF hasOptionalProperty(msg, "interactiveAsTemplate")
    THEN IF ~Has(r.m, "interactiveMessage")
         THEN [r EXCEPT !.ok = FALSE, !.m = <<>>,
                        !.err = Boom("Invalid message type for template", 400)]
         ELSE [r EXCEPT !.m = Obj1("templateMessage",
                                   [interactiveMessageTemplate |->
                                        Get(r.m, "interactiveMessage"),
                                    templateId |-> "template"])]
    ELSE r

\* an outer step that tests viewOnce before ephemeral
OuterWrapStepViewOnceFirst(r, msg) ==
    IF ~r.ok \/ r.returned THEN r
    ELSE IF hasOptionalProperty(msg, "viewOnce") THEN [r EXCEPT !.m = Wrap("viewOnce", r.m)]
    ELSE IF hasOptionalProperty(msg, "ephemeral") THEN [r EXCEPT !.m = Wrap("ephemeral", r.m)]
    ELSE IF hasOptionalProperty(msg, "viewOnceV2")
    THEN [r EXCEPT !.m = Wrap("viewOnceV2", r.m)]
    ELSE IF hasOptionalProperty(msg, "viewOnceV2Extension")
    THEN [r EXCEPT !.m = Wrap("viewOnceV2Extension", r.m)]
    ELSE r

\* ephemeral, else viewOnce, else viewOnceV2, else viewOnceV2Extension
OuterWrapStep(r, msg) ==
    IF ~r.ok \/ r.returned THEN r
    ELSE IF hasOptionalProperty(msg, "ephemeral") THEN [r EXCEPT !.m = Wrap("ephemeral", r.m)]
    ELSE IF hasOptionalProperty(msg, "viewOnce") THEN [r EXCEPT !.m = Wrap("viewOnce", r.m)]
    ELSE IF hasOptionalProperty(msg, "viewOnceV2")
    THEN [r EXCEPT !.m = Wrap("viewOnceV2", r.m)]
    ELSE IF hasOptionalProperty(msg, "viewOnceV2Extension")
    THEN [r EXCEPT !.m = Wrap("viewOnceV2Extension", r.m)]
    ELSE r

WrapStage(r, msg) == OuterWrapStep(InnerWrapStep(r, msg), msg)

\* the descriptor keys the wrap step deletes
WrapDeletes(r0, msg) ==
    LET inner == InnerWrapStep(r0, msg)
        d1 == IF ~r0.ok \/ r0.returned \/ ~inner.ok THEN {}
              ELSE IF hasOptionalProperty(msg, "groupStatus") THEN {"groupStatus"}
              ELSE IF hasOptionalProperty(msg, "interactiveAsTemplate")
              THEN {"interactiveAsTemplate"} ELSE {}
        d2 == IF ~inner.ok \/ inner.returned THEN {}
              ELSE IF hasOptionalProperty(msg, "ephemeral") THEN {"ephemeral"}
              ELSE IF hasOptionalProperty(msg, "viewOnce") THEN {}
              ELSE IF hasOptionalProperty(msg, "viewOnceV2") THEN {"viewOnceV2"}
              ELSE IF hasOptionalProperty(msg, "viewOnceV2Extension")
              THEN {"viewOnceV2Extension"} ELSE {}
    IN  d1 \cup d2

-----------------------------------------------------------------------------
(* generateWAMessageContent: edit and reporting token (lines 1362-1378) *)

EditStage(r, msg) ==
    IF ~r.ok \/ r.returned \/ ~hasOptionalProperty(msg, "edit") THEN r
    ELSE [r EXCEPT !.m = Obj1("protocolMessage",
                              [editedMessage |-> r.m, type |-> "MESSAGE_EDIT"])]

\* reporting-utils.js is outside the sources at hand: the predicate's answer for
\* the compiled message is an input of the call (options.reportingToken)
shouldIncludeReportingToken(m, opts) == opts.reportingToken

ReportingTokenStage(r, opts) ==
    IF ~r.ok \/ r.returned \/ ~shouldIncludeReportingToken(r.m, opts) THEN r
    ELSE LET old == IF Has(r.m, "messageContextInfo")
                    THEN Get(r.m, "messageContextInfo") ELSE EmptyRecord
         IN  [r EXCEPT !.m = Put(r.m, "messageContextInfo", With(old, "messageSecret", TRUE))]

-----------------------------------------------------------------------------
(* The descriptors and options the compiler is run on *)

RECURSIVE SubsetsUpTo(_, _)
SubsetsUpTo(S, n) ==
    IF n = 0 THEN {{}}
    ELSE LET prev == SubsetsUpTo(S, n - 1)
         IN  prev \cup {p \cup {x} : p \in prev, x \in S}

Opts(u, t) == [BaseOptions EXCEPT !.uploadOk = u, !.reportingToken = t]

OneFlag == {{}} \cup {{f} : f \in {"ephemeral", "viewOnce", "groupStatus"}}

Albums == {<<>>, <<"image">>, <<"image", "video">>, <<"image", "other">>}

\* several primary tags at once, each with well-formed sub-fields
TagScenarios ==
    \E ks \in SubsetsUpTo(PrimaryTagSet, MaxTags), mt \in {"none", "image"},
       ty \in {"none", "plain"}, t \in BOOLEAN :
        /\ message = [BaseMessage EXCEPT !.keys = ks, !.mediaType = mt, !.type = ty]
        /\ options = Opts(TRUE, t)

\* a text descriptor with every shape of link preview, color and font
TextScenarios ==
    \E fl \in OneFlag, t \in Texts, lp \in {"undefined", "none", "info"},
       g \in {"none", "ok", "fails"}, bg \in {"none", "number", "hex"},
       fo \in BOOLEAN, rt \in BOOLEAN :
        /\ message = [BaseMessage EXCEPT !.keys = {"text"} \cup fl, !.text = t,
                                         !.linkPreview = lp]
        /\ options = [BaseOptions EXCEPT !.getUrlInfo = g, !.backgroundColor = bg,
                                         !.font = fo, !.reportingToken = rt]

\* one primary tag, every shape of its sub-fields, one wrapper flag at most
FieldScenarios ==
    \E fl \in OneFlag, u \in BOOLEAN, t \in BOOLEAN :
        /\ options = Opts(u, t)
        /\ \/ \E tag \in {"contacts", "pin", "keep", "buttonReply"},
                 ty \in TypeValues, n \in 0..2 :
                  message = [BaseMessage EXCEPT !.keys = {tag} \cup fl, !.type = ty,
                                                !.contacts = n]
           \/ \E b \in BOOLEAN :
                  message = [BaseMessage EXCEPT !.keys = {"product"} \cup fl,
                                                !.businessOwnerJid = b]
           \/ \E k \in BOOLEAN, v \in BOOLEAN :
                  message = [BaseMessage EXCEPT !.keys = {"pollUpdate"} \cup fl,
                                                !.pollUpdate = [key |-> k, vote |-> v]]
           \/ \E b \in BOOLEAN :
                  message = [BaseMessage EXCEPT !.keys = {"orderText"} \cup fl,
                                                !.thumbnailIsBuffer = b]
           \/ \E al \in Albums :
                  message = [BaseMessage EXCEPT !.keys = {"album"} \cup fl, !.album = al]
           \/ \E rw \in RawPayloads :
                  message = [BaseMessage EXCEPT !.keys = {"raw"} \cup fl, !.raw = rw]
           \/ \E fw \in ForwardSources, b \in BOOLEAN :
                  message = [BaseMessage EXCEPT !.keys = {"forward"} \cup fl,
                                                !.forward = fw, !.force = b]
           \/ \E mt \in MediaTypes \cup {"none"}, cap \in {{}, {"caption"}} :
                  message = [BaseMessage EXCEPT !.keys = fl \cup cap, !.mediaType = mt]

\* a poll descriptor with every shape of its fields
PollScenarios ==
    \E fl \in OneFlag, p \in Polls, rt \in BOOLEAN :
        /\ message = [BaseMessage EXCEPT !.keys = {"poll"} \cup fl, !.poll = p]
        /\ options = Opts(TRUE, rt)

\* modifiers and interactive tags over a few kinds of content
ModifierScenarios ==
    \E base \in {{}, {"text"}, {"poll"}, {"buttonReply"}, {"caption"}},
       it \in {{}} \cup {{t} : t \in InteractiveTags},
       mods \in SubsetsUpTo(WrapperFlags \cup ContextTags \cup {"edit", "footer"}, 2),
       mt \in {"none", "image", "audio"}, rt \in BOOLEAN :
        /\ message = [BaseMessage EXCEPT !.keys = base \cup it \cup mods, !.mediaType = mt,
                                         !.type = "plain"]
        /\ options = Opts(TRUE, rt)

\* every combination of the wrapper flags over a text, an interactive and an
\* empty content
WrapperScenarios ==
    \E base \in {{"text"}, {"text", "nativeFlow"}, {"buttonReply"}},
       flags \in SUBSET WrapperFlags, ty \in {"none", "plain"}, rt \in BOOLEAN :
        /\ message = [BaseMessage EXCEPT !.keys = base \cup flags, !.type = ty]
        /\ options = Opts(TRUE, rt)

\* one or two interactive tags over a text and over a medium
InteractiveScenarios ==
    \E base \in {{"text"}, {"caption"}}, its \in SubsetsUpTo(InteractiveTags, 2),
       mt \in {"none", "image"} :
        /\ message = [BaseMessage EXCEPT !.keys = base \cup its, !.mediaType = mt]
        /\ options = BaseOptions

Scenarios ==
    \/ TagScenarios \/ TextScenarios \/ FieldScenarios \/ PollScenarios
    \/ ModifierScenarios \/ WrapperScenarios \/ InteractiveScenarios

-----------------------------------------------------------------------------
(* State of the components that are not running *)

GenIdle ==
    [pc |-> "off", ok |-> FALSE, builder |-> "", m |-> <<>>, err |-> NoErr,
     given |-> BaseMessage, pre |-> <<>>, ran |-> <<>>]
WrapIdle == [pc |-> "off", ok |-> FALSE, m |-> <<>>, err |-> NoErr, steps |-> 0]
NormIdle == [pc |-> "off", heap |-> <<>>, cur |-> 0, i |-> 0]

-----------------------------------------------------------------------------
(* The compiler as a state machine: one call of generateWAMessageContent *)

GenInit ==
    /\ Scenarios
    /\ gen = [GenIdle EXCEPT !.pc = "ready", !.given = message]

\* the call runs its stages in order, each on the outcome of the one before, to
\* its return or to its throw; the descriptor is left as the call mutated it
generateWAMessageContent ==
    /\ gen.pc = "ready"
    /\ \E r0 \in {BuildPrimary(message, options)} :
       \E r1 \in {InteractiveStage(r0, message, options)} :
       \E r2 \in {ContextStage(r1, message)} :
       \E r3 \in {WrapStage(r2, message)} :
       \E r4 \in {EditStage(r3, message)} :
       \E r5 \in {ReportingTokenStage(r4, options)} :
       \E deleted \in {WrapDeletes(r2, message)
                          \cup (IF r0.returned THEN {"raw"} ELSE {})} :
           /\ gen' = [pc |-> IF r5.ok THEN "returned" ELSE "threw", ok |-> r5.ok,
                      builder |-> r5.builder, m |-> r5.m, err |-> r5.err,
                      given |-> message, pre |-> r2.m,
                      ran |-> <<r0.builder>> \o InteractiveBuilder(r0, message)]
           /\ message' = [message EXCEPT !.keys = @ \ deleted]
    /\ UNCHANGED <<options, wrapVars, mediaVars, packVars, utilVars>>

-----------------------------------------------------------------------------
(* Specifications *)

NormOff == norm = NormIdle
WrapStepOff == wrapIn = <<>> /\ wrapFlag = "none" /\ wrapOut = WrapIdle
WrapOff == WrapStepOff /\ NormOff
GenOff == message = BaseMessage /\ options = BaseOptions /\ gen = GenIdle
MediaOff == media = <<>> /\ cache = <<>> /\ files = {} /\ calls = 0 /\ inputs = {}
PackOff == pack = <<>>
BizOff == biz = <<>>
SyncOff == sync = <<>>
DownloadOff == dl = <<>>
UpdateOff == upd = <<>>
NodeOff == node = <<>>
CarouselOff == carousel = <<>>
UtilOff == BizOff /\ SyncOff /\ DownloadOff /\ UpdateOff /\ NodeOff /\ CarouselOff

\* generateWAMessageContent on every scenario
InitGen == GenInit /\ WrapOff /\ MediaOff /\ PackOff /\ UtilOff

GenNext == generateWAMessageContent

SpecGen == InitGen /\ [][GenNext]_vars

-----------------------------------------------------------------------------
(* Properties of the descriptor classifier *)

GenDone == gen.pc \in {"returned", "threw"}

\* the earliest primary tag of a key set in the documented order, "media" if none
FirstTag(ks) ==
    IF ks \cap PrimaryTagSet = {} THEN "media"
    ELSE PrimaryTags[CHOOSE i \in 1..Len(PrimaryTags) :
                         /\ PrimaryTags[i] \in ks
                         /\ \A j \in 1..(i - 1) : PrimaryTags[j] \notin ks]

\* the content-type keys each builder can produce
BuilderKeys(b) ==
    CASE b = "text" -> {"extendedTextMessage"}
      [] b = "contacts" -> {"contactMessage", "contactsArrayMessage"}
      [] b = "location" -> {"locationMessage"}
      [] b = "react" -> {"reactionMessage"}
      [] b \in {"delete", "sharePhoneNumber", "limitSharing"} -> {"protocolMessage"}
      [] b = "forward" -> {"extendedTextMessage"}
      [] b = "disappearingMessagesInChat" -> {"ephemeralMessage"}
      [] b = "groupInvite" -> {"groupInviteMessage"}
      [] b = "stickers" -> {"stickerPackMessage"}
      [] b = "pin" -> {"pinInChatMessage"}
      [] b = "keep" -> {"keepInChatMessage"}
      [] b = "flowReply" -> {"interactiveResponseMessage"}
      [] b = "buttonReply" -> {"templateButtonReplyMessage", "buttonsResponseMessage"}
      [] b = "listReply" -> {"listResponseMessage"}
      [] b = "ptv" -> {"ptvMessage"}
      [] b = "product" -> {"productMessage"}
      [] b = "event" -> {"eventMessage"}
      [] b = "poll" -> {"pollCreationMessage", "pollCreationMessageV2",
                        "pollCreationMessageV3", "pollCreationMessageV5"}
      [] b = "pollResult" -> {"pollResultSnapshotMessage"}
      [] b = "pollUpdate" -> {"pollUpdateMessage"}
      [] b = "requestPhoneNumber" -> {"requestPhoneNumberMessage"}
      [] b = "paymentInviteServiceType" -> {"paymentInviteMessage"}
      [] b = "orderText" -> {"orderMessage"}
      [] b = "album" -> {"albumMessage"}
      [] b = "raw" -> {"extendedTextMessage", "imageMessage"}
      [] OTHER -> {MessageKey(t) : t \in MediaTypes}

\* getContentType skips every key that is neither 'conversation' nor contains
\* 'Message': of the keys the compiler writes, that is messageContextInfo
ContentTypeKeys(m) == {m[i].k : i \in 1..Len(m)} \ {"messageContextInfo"}

NoModifiers(msg) ==
    msg.keys \cap (InteractiveTags \cup ContextTags \cup WrapperFlags \cup OtherKeys) = {}

\* C1: the builder that runs is the one of the earliest primary tag present, in the
\* order text, contacts, ..., album, raw, and the media fallback when no primary tag
\* is present; without modifiers the compiled content is of that builder's kind
C1_EarliestTagWins ==
    GenDone =>
        /\ gen.builder = FirstTag(gen.given.keys)
        /\ (gen.pc = "returned" /\ NoModifiers(gen.given)) =>
               ContentTypeKeys(gen.m) \subseteq BuilderKeys(gen.builder)

C1_Witness ==
    /\ gen.pc = "returned"
    /\ gen.given.keys = {"text", "poll"}
    /\ gen.builder = "text"
    /\ Has(gen.m, "extendedTextMessage")

\* C2, as claimed: a descriptor with exactly one matching primary tag (or none but
\* a media key) compiles to a message with exactly one content-type key
C2_ExactlyOneContentKey ==
    (/\ gen.pc = "returned"
     /\ Cardinality(gen.given.keys \cap PrimaryTagSet) <= 1)
        => Cardinality(ContentTypeKeys(gen.m)) = 1

\* C9: a poll whose selectableCount is below 0 or above values.length fails with the
\* 400 error that names values.length and yields no message; a poll within the
\* bounds never raises that error
PollBoundMessage == "poll.selectableCount in poll should be >= 0 and <= "

C9_PollBounds ==
    LET poll == gen.given.poll
        n == Len(poll.values)
    IN  (GenDone /\ FirstTag(gen.given.keys) = "poll" /\ poll.valuesIsArray) =>
            /\ (poll.selectableCount < 0 \/ poll.selectableCount > n) =>
                   /\ gen.pc = "threw"
                   /\ gen.err = BoomArg(PollBoundMessage, 400, n)
                   /\ gen.m = <<>>
            /\ (poll.selectableCount >= 0 /\ poll.selectableCount <= n) =>
                   gen.err.msg # PollBoundMessage

C9_Witness ==
    /\ gen.pc = "threw"
    /\ FirstTag(gen.given.keys) = "poll"
    /\ gen.given.poll.valuesIsArray
    /\ gen.given.poll.selectableCount = Len(gen.given.poll.values) + 1
    /\ gen.err.arg = Len(gen.given.poll.values)

\* the descriptor {text: "hi"} for a normal chat, with the given modifier keys
PlainHi(mods) ==
    /\ gen.pc = "returned"
    /\ gen.given = [BaseMessage EXCEPT !.keys = {"text"} \cup mods]
    /\ options.backgroundColor = "none" /\ ~options.font

HiContent == Obj1("extendedTextMessage", [text |-> "hi"])

\* C10, as claimed: {text: "hi"} compiles to exactly the extendedTextMessage, and with
\* ephemeral: true to exactly the ephemeralMessage around it, no other top-level field
C10_ExactlyText ==
    /\ PlainHi({}) => gen.m = HiContent
    /\ PlainHi({"ephemeral"}) => gen.m = Obj1("ephemeralMessage", [message |-> HiContent])

\* C10, amended: apart from a top-level messageContextInfo that holds only a
\* messageSecret, present exactly when the reporting-token predicate accepts the
\* message, the compiled message is the claimed one
C10_TextPlusReportingToken ==
    LET expected(mods) == IF mods = {} THEN HiContent
                          ELSE Obj1("ephemeralMessage", [message |-> HiContent])
    IN  \A mods \in {{}, {"ephemeral"}} :
            PlainHi(mods) =>
                /\ Del(gen.m, "messageContextInfo") = expected(mods)
                /\ Has(gen.m, "messageContextInfo") <=> options.reportingToken
                /\ Has(gen.m, "messageContextInfo") =>
                       Get(gen.m, "messageContextInfo") = [messageSecret |-> TRUE]

C10_Witness ==
    /\ PlainHi({"ephemeral"})
    /\ options.reportingToken
    /\ Has(gen.m, "ephemeralMessage")

OuterWrapperKeys ==
    {"ephemeralMessage", "viewOnceMessage", "viewOnceMessageV2",
     "viewOnceMessageV2Extension"}

InnerWrapperKeys == {"groupStatusMessageV2", "templateMessage"}

\* the wrappers found around a compiled content, outermost first
RECURSIVE WrapperChain(_)
WrapperChain(m) ==
    IF Len(m) = 1 /\ m[1].k \in OuterWrapperKeys \cup {"groupStatusMessageV2"}
    THEN <<m[1].k>> \o WrapperChain(m[1].v.message)
    ELSE IF Has(m, "templateMessage") THEN <<"templateMessage">>
    ELSE <<>>

\* the wrappers the flags of a descriptor ask for, outermost first
ExpectedChain(ks) ==
    (IF "ephemeral" \in ks THEN <<"ephemeralMessage">>
     ELSE IF "viewOnce" \in ks THEN <<"viewOnceMessage">>
     ELSE IF "viewOnceV2" \in ks THEN <<"viewOnceMessageV2">>
     ELSE IF "viewOnceV2Extension" \in ks THEN <<"viewOnceMessageV2Extension">>
     ELSE <<>>)
    \o (IF "groupStatus" \in ks THEN <<"groupStatusMessageV2">>
        ELSE IF "interactiveAsTemplate" \in ks THEN <<"templateMessage">>
        ELSE <<>>)

\* a compiled call whose content was no wrapper before the wrap step and that
\* was not turned into an edit
WrapCase ==
    /\ gen.pc = "returned"
    /\ "edit" \notin gen.given.keys /\ "raw" \notin gen.given.keys
    /\ \A k \in OuterWrapperKeys \cup InnerWrapperKeys : ~Has(gen.pre, k)

\* C11: for every combination of the wrapper flags at most one wrapper of
\* {groupStatus, interactiveAsTemplate} is applied, groupStatus first, and at
\* most one of {ephemeral, viewOnce, viewOnceV2, viewOnceV2Extension}, in that
\* precedence, and the former is nested inside the latter
C11_WrapperPrecedence ==
    WrapCase =>
        WrapperChain(Del(gen.m, "messageContextInfo")) = ExpectedChain(gen.given.keys)

\* reached: all six flags set on an interactive content, compiled to an
\* ephemeralMessage around a groupStatusMessageV2
C11_Witness ==
    /\ WrapCase
    /\ WrapperFlags \subseteq gen.given.keys
    /\ WrapperChain(Del(gen.m, "messageContextInfo"))
           = <<"ephemeralMessage", "groupStatusMessageV2">>

-----------------------------------------------------------------------------
(* The wrap step followed by normalizeMessageContent *)

WrapVariants == {"ephemeral", "viewOnce", "viewOnceV2", "viewOnceV2Extension", "groupStatus"}

\* the contents the compiler hands to its wrap step: every kind of content, with
\* and without context metadata, that is not itself a wrapper
WrapInit ==
    \E tag \in PrimaryTagSet \cup {"media"}, ty \in {"none", "plain", "pin"}, n \in 1..2,
       sel \in 0..1, mt \in {"image", "audio"},
       cx \in {{}, {"mentions"}, {"contextInfo", "externalAdReply"}},
       it \in {{}, {"buttons"}, {"sections"}}, W \in WrapVariants :
        \E msg \in {[BaseMessage EXCEPT !.keys = ({tag} \ {"media"}) \cup cx \cup it,
                                         !.type = ty, !.contacts = n, !.mediaType = mt,
                                         !.poll.selectableCount = sel]} :
        \E r0 \in {BuildPrimary(msg, BaseOptions)} :
        \E r1 \in {InteractiveStage(r0, msg, BaseOptions)} :
        \E r \in {ContextStage(r1, msg)} :
            /\ r.ok
            /\ ~hasFutureProofMessage(r.m)
            /\ wrapIn = r.m
            /\ wrapFlag = W
            /\ wrapOut = [WrapIdle EXCEPT !.pc = "ready"]

\* lines 1316-1361 on a descriptor whose only modifier is wrapFlag
ApplyWrap ==
    /\ wrapOut.pc = "ready"
    /\ \E r \in {WrapStage(Ok("", wrapIn), [BaseMessage EXCEPT !.keys = {wrapFlag}])} :
           wrapOut' = [pc |-> IF r.ok THEN "wrapped" ELSE "threw", ok |-> r.ok,
                       m |-> r.m, err |-> r.err, steps |-> 0]
    /\ UNCHANGED <<wrapIn, wrapFlag, norm, genVars, mediaVars, packVars, utilVars>>

Normalize ==
    /\ wrapOut.pc = "wrapped"
    /\ wrapOut' = [wrapOut EXCEPT !.pc = "normalized",
                                  !.m = normalizeMessageContent(wrapOut.m),
                                  !.steps = UnwrapSteps(wrapOut.m, 0)]
    /\ UNCHANGED <<wrapIn, wrapFlag, norm, genVars, mediaVars, packVars, utilVars>>

WrapNext == ApplyWrap \/ Normalize

InitWrap == WrapInit /\ NormOff /\ GenOff /\ MediaOff /\ PackOff /\ UtilOff

SpecWrap == InitWrap /\ [][WrapNext]_vars

\* C3, as claimed: for each of the five wrapper variants, normalizing the wrapped
\* content gives back the content that was wrapped, within 5 unwrap iterations
C3_NormalizeUndoesWrap ==
    wrapOut.pc = "normalized" => (wrapOut.m = wrapIn /\ wrapOut.steps <= UnwrapLimit)

\* a record without its contextInfo field
SansContext(rec) == [f \in DOMAIN rec \ {"contextInfo"} |-> rec[f]]

\* C3, amended: ephemeral, viewOnce, viewOnceV2 and viewOnceV2Extension are undone
\* exactly; the groupStatus step first sets contextInfo.isGroupStatus on the first
\* top-level field of the content (and throws on a content without fields), so
\* normalizing gives the content back with that one flag added
C3_NormalizeUndoesWrapUpToGroupStatusFlag ==
    /\ wrapOut.pc = "threw" => (wrapFlag = "groupStatus" /\ wrapIn = <<>>)
    /\ wrapOut.pc = "normalized" =>
        /\ wrapOut.steps <= UnwrapLimit
        /\ wrapFlag # "groupStatus" => wrapOut.m = wrapIn
        /\ wrapFlag = "groupStatus" =>
            /\ Keys(wrapOut.m) = Keys(wrapIn)
            /\ \A i \in 2..Len(wrapIn) : wrapOut.m[i] = wrapIn[i]
            /\ SansContext(wrapOut.m[1].v) = SansContext(wrapIn[1].v)
            /\ wrapOut.m[1].v.contextInfo.isGroupStatus
            /\ \A f \in DOMAIN wrapOut.m[1].v.contextInfo \ {"isGroupStatus"} :
                   /\ "contextInfo" \in DOMAIN wrapIn[1].v
                   /\ f \in DOMAIN wrapIn[1].v.contextInfo
                   /\ wrapOut.m[1].v.contextInfo[f] = wrapIn[1].v.contextInfo[f]

C3_Witness ==
    /\ wrapOut.pc = "normalized"
    /\ wrapFlag = "viewOnceV2Extension"
    /\ wrapOut.steps = 1
    /\ Has(wrapIn, "pollCreationMessageV3")
    /\ wrapOut.m = wrapIn

-----------------------------------------------------------------------------
(* prepareWAMessageMedia as a process: cache lookup, stream preparation, the  *)
(* upload task and the extraction task under Promise.all, the finally         *)
(* cleanup, the fragment and the cache write                                  *)

Callers == {"A", "B"}

MediaCall(mediaType, src, ptv, ptt, caption, dest, bg, hasCache) ==
    [mediaType |-> mediaType, src |-> src, ptv |-> ptv, ptt |-> ptt,
     caption |-> caption, dest |-> dest, bg |-> bg, hasCache |-> hasCache]

NoInput == MediaCall("none", "buffer", FALSE, FALSE, "", "chat", "none", FALSE)

IdleCall ==
    [pc |-> "idle", input |-> NoInput, upload |-> "none", extract |-> "none",
     todo |-> <<>>, derived |-> <<>>, joined |-> "pending", hit |-> FALSE,
     uploads |-> 0, encrypts |-> 0, created |-> {}, out |-> <<>>, err |-> NoErr,
     failed |-> "", gets |-> 0, sets |-> 0]

OffCall == [IdleCall EXCEPT !.pc = "off"]

\* the descriptors and options a client may pass
MediaCalls ==
    {MediaCall(mt, src, ptv, ptt, cap, dest, bg, hc) :
        mt \in {"image", "video", "audio", "document"}, src \in {"u1", "buffer"},
        ptv \in BOOLEAN, ptt \in BOOLEAN, cap \in {"", "c"},
        dest \in {"chat", "newsletter"}, bg \in {"none", "hex", "number"},
        hc \in BOOLEAN}

WellFormedCall(x) ==
    /\ x.ptv => x.mediaType = "video"
    /\ x.ptt => x.mediaType = "audio"
    /\ x.bg # "none" => x.ptt

isJidNewsletter(dest) == dest = "newsletter"

CallKey(x) == cacheableKey(x, x.hasCache)

\* mediaCache.get: undefined (modelled as <<>>) when the key is not set
CacheGet(k) == IF k \in DOMAIN cache THEN cache[k] ELSE <<>>

FilesOf(c) == {f \in files : f[1] = c}

\* the files encryptedStream (chat) or getRawMediaUploadData (newsletter) leave
StreamFiles(x) ==
    IF isJidNewsletter(x.dest) THEN {"raw"}
    ELSE IF requiresOriginalForSomeProcessing(x) THEN {"enc", "orig"} ELSE {"enc"}

\* the first unlink of the finally callback: filePath or encFilePath
FirstFile(x) == IF isJidNewsletter(x.dest) THEN "raw" ELSE "enc"

\* a continuation that goes on to build the fragment after a rejected upload
SettleIgnoringRejection(call) == [call EXCEPT !.pc = "build"]

\* what follows the finally callback: the rejection of Promise.all is rethrown,
\* its fulfilment lets the function go on to build the fragment
Settle(call) ==
    IF call.joined = "rejected"
    THEN [call EXCEPT !.pc = "threw", !.err = UploadError]
    ELSE [call EXCEPT !.pc = "build"]

\* a cleanup that forgets  if (originalFilePath) await fs.unlink(originalFilePath)
AfterFirstUnlinkSkipOriginal(call) == Settle(call)

\* after fs.unlink(encFilePath): the original file is unlinked when there is one
AfterFirstUnlink(call) ==
    IF ~isJidNewsletter(call.input.dest) /\ "orig" \in call.created
    THEN [call EXCEPT !.pc = "cleanup2"]
    ELSE Settle(call)

Start(c) ==
    /\ media[c].pc = "idle"
    /\ calls < MaxCalls
    /\ \E x \in inputs :
         media' = [media EXCEPT ![c] =
                     [IdleCall EXCEPT !.input = x,
                                      !.pc = IF CallKey(x) # "" THEN "lookup"
                                             ELSE "prepare"]]
    /\ calls' = calls + 1
    /\ UNCHANGED <<cache, files, inputs, genVars, wrapVars, packVars, utilVars>>

\* await options.mediaCache.get(cacheableKey) and the hit branch
Lookup(c) ==
    /\ media[c].pc = "lookup"
    /\ LET call == media[c]
           buff == CacheGet(CallKey(call.input))
           r == CacheHit(call.input, buff)
       IN  media' = [media EXCEPT ![c] =
                 IF buff = <<>> THEN [call EXCEPT !.pc = "prepare", !.gets = 1]
                 ELSE IF r.ok THEN [call EXCEPT !.pc = "returned", !.hit = TRUE,
                                                !.out = r.m, !.gets = 1]
                 ELSE [call EXCEPT !.pc = "threw", !.hit = TRUE, !.err = r.err,
                                   !.gets = 1]]
    /\ UNCHANGED <<cache, files, calls, inputs, genVars, wrapVars, packVars, utilVars>>

\* encryptedStream / getRawMediaUploadData, then both tasks of Promise.all start:
\* the upload is invoked at once, extraction runs its steps one by one
Prepare(c) ==
    /\ media[c].pc = "prepare"
    /\ LET call == media[c]
           x == call.input
           steps == ExtractSteps(x, x.dest, x.bg)
       IN  /\ media' = [media EXCEPT ![c] =
                   [call EXCEPT !.pc = "join",
                                !.created = StreamFiles(x),
                                !.encrypts = IF isJidNewsletter(x.dest) THEN 0 ELSE 1,
                                !.uploads = 1,
                                !.upload = "running",
                                !.todo = steps,
                                !.extract = IF steps = <<>> THEN "settled"
                                            ELSE "running"]]
           /\ files' = files \cup {<<c, f>> : f \in StreamFiles(x)}
    /\ UNCHANGED <<cache, calls, inputs, genVars, wrapVars, packVars, utilVars>>

\* options.upload resolves or rejects
UploadSettles(c) ==
    /\ media[c].pc = "join"
    /\ media[c].upload = "running"
    /\ \E ok \in BOOLEAN :
         media' = [media EXCEPT ![c].upload = IF ok THEN "ok" ELSE "failed"]
    /\ UNCHANGED <<cache, files, calls, inputs, genVars, wrapVars, packVars, utilVars>>

\* one awaited step of the extraction task; a failure is caught by the single
\* try/catch around all steps and ends the task
ExtractStep(c) ==
    /\ media[c].extract = "running"
    /\ LET call == media[c]
           step == Head(call.todo)
           rest == Tail(call.todo)
           got == IF step = "backgroundArgb" /\ assertColor(call.input.bg) = "undefined"
                  THEN call.derived ELSE Append(call.derived, step)
       IN  \E ok \in BOOLEAN :
             media' = [media EXCEPT ![c] =
                 IF ok THEN [call EXCEPT !.derived = got, !.todo = rest,
                                         !.extract = IF rest = <<>> THEN "settled"
                                                     ELSE "running"]
                 ELSE [call EXCEPT !.todo = <<>>, !.extract = "settled",
                                   !.failed = step]]
    /\ UNCHANGED <<cache, files, calls, inputs, genVars, wrapVars, packVars, utilVars>>

\* Promise.all settles: it rejects as soon as the upload has rejected, and is
\* fulfilled once both tasks are; the finally callback then starts
Join(c) ==
    /\ media[c].pc = "join"
    /\ \/ /\ media[c].upload = "failed"
          /\ media' = [media EXCEPT ![c].joined = "rejected", ![c].pc = "cleanup"]
       \/ /\ media[c].upload = "ok"
          /\ media[c].extract = "settled"
          /\ media' = [media EXCEPT ![c].joined = "fulfilled", ![c].pc = "cleanup"]
    /\ UNCHANGED <<cache, files, calls, inputs, genVars, wrapVars, packVars, utilVars>>

\* await fs.unlink(filePath) / await fs.unlink(encFilePath)
UnlinkFirst(c) ==
    /\ media[c].pc = "cleanup"
    /\ files' = files \ {<<c, FirstFile(media[c].input)>>}
    /\ media' = [media EXCEPT ![c] = AfterFirstUnlink(media[c])]
    /\ UNCHANGED <<cache, calls, inputs, genVars, wrapVars, packVars, utilVars>>

\* await fs.unlink(originalFilePath)
UnlinkOriginal(c) ==
    /\ media[c].pc = "cleanup2"
    /\ files' = files \ {<<c, "orig">>}
    /\ media' = [media EXCEPT ![c] = Settle(media[c])]
    /\ UNCHANGED <<cache, calls, inputs, genVars, wrapVars, packVars, utilVars>>

\* proto.Message.create, the ptv rename, stickerSentTs
Build(c) ==
    /\ media[c].pc = "build"
    /\ LET call == media[c]
           x == call.input
       IN  media' = [media EXCEPT ![c] =
                 [call EXCEPT !.out = BuildFragment(x, x.dest, call.derived),
                              !.pc = IF CallKey(x) # "" THEN "store" ELSE "returned"]]
    /\ UNCHANGED <<cache, files, calls, inputs, genVars, wrapVars, packVars, utilVars>>

\* await options.mediaCache.set(cacheableKey, encode(obj)); return obj
Store(c) ==
    /\ media[c].pc = "store"
    /\ cache' = (CallKey(media[c].input) :> Encode(media[c].out)) @@ cache
    /\ media' = [media EXCEPT ![c].pc = "returned", ![c].sets = 1]
    /\ UNCHANGED <<files, calls, inputs, genVars, wrapVars, packVars, utilVars>>

\* the caller takes the outcome and is free to call again
Release(c) ==
    /\ media[c].pc \in {"returned", "threw"}
    /\ media[c].extract # "running"
    /\ calls < MaxCalls
    /\ media' = [media EXCEPT ![c] = IdleCall]
    /\ UNCHANGED <<cache, files, calls, inputs, genVars, wrapVars, packVars, utilVars>>

MediaStep(c) ==
    \/ Start(c) \/ Lookup(c) \/ Prepare(c) \/ UploadSettles(c) \/ ExtractStep(c)
    \/ Join(c) \/ UnlinkFirst(c) \/ UnlinkOriginal(c) \/ Build(c) \/ Store(c)
    \/ Release(c)

MediaNext == \E c \in Callers : MediaStep(c)

\* the request mixes of a run: one descriptor, or two that share a cache key
SameKeyPair(x, y) ==
    /\ x # y
    /\ x.mediaType = y.mediaType
    /\ x.src = "u1" /\ y.src = "u1"
    /\ x.hasCache /\ y.hasCache

MediaInit ==
    /\ \/ \E x \in MediaCalls : WellFormedCall(x) /\ inputs = {x}
       \/ \E x, y \in MediaCalls :
            WellFormedCall(x) /\ WellFormedCall(y) /\ SameKeyPair(x, y)
            /\ inputs = {x, y}
    /\ media = [c \in Callers |-> IF c = "A" THEN IdleCall ELSE OffCall]
    /\ cache = <<>>
    /\ files = {}
    /\ calls = 0

InitMedia == MediaInit /\ GenOff /\ WrapOff /\ PackOff /\ UtilOff

SpecMedia == InitMedia /\ [][MediaNext]_vars

Finished(c) == media[c].pc \in {"returned", "threw"}

\* C4: on a cache hit the call returns the decoded stored fragment merged with
\* the call's override fields and invokes neither the uploader nor encryption
C4_CacheHitReturnsMergedFragment ==
    \A c \in Callers :
        media[c].hit =>
            /\ media[c].uploads = 0
            /\ media[c].encrypts = 0
            /\ media[c].pc = "returned"
            /\ LET x == media[c].input
                   key == MessageKey(x.mediaType)
               IN  /\ Has(media[c].out, key)
                   /\ \A f \in DOMAIN UploadData(x) :
                        f \in DOMAIN Get(media[c].out, key)
                        /\ Get(media[c].out, key)[f] = UploadData(x)[f]

\* C5: the cleanup step starts, and the call completes, only after both the
\* upload task and the extraction task have settled
C5_CleanupAfterBothSettled ==
    \A c \in Callers :
        media[c].pc \in {"cleanup", "cleanup2", "build", "store", "returned", "threw"}
            => media[c].upload # "running" /\ media[c].extract # "running"

-----------------------------------------------------------------------------
(* prepareStickerPackMessage as a process: validation, cache lookup, one      *)
(* conversion task per sticker under Promise.all, cover, zip, upload,         *)
(* thumbnail and cache write                                                  *)

\* cacheableKey of a pack: 'sticker:' + the stickers' urls joined by '@', a
\* non-empty string whenever a cache is configured and the list is not empty
PackCacheableKey(stickers, allUrls, hasCache) ==
    IF Len(stickers) # 0 /\ hasCache
    THEN (IF allUrls THEN "sticker:urls" ELSE "sticker:")
    ELSE ""

\* the StickerPackMessage object of lines 438-453 (and 488-495 with a thumbnail)
PackContent(meta, withThumbnail) ==
    LET obj == [stickers |-> meta, trayIconFileName |-> TrayIconFileName,
                mediaKey |-> TRUE, directPath |-> TRUE]
    IN  IF withThumbnail THEN With(obj, "thumbnailDirectPath", TRUE) ELSE obj

\* an entry a former call has left in the media cache
EarlierPack == Encode(PackContent(<<[fileName |-> 1]>>, TRUE))

PackIdle ==
    [pc |-> "start", stickers |-> <<>>, cover |-> "none", sharp |-> FALSE,
     key |-> "", cache |-> <<>>, valid |-> "pending", looked |-> 0, done |-> {},
     stickerData |-> {}, meta |-> <<>>, archive |-> {}, tmp |-> {}, uploads |-> 0,
     err |-> NoErr, out |-> <<>>, allUrls |-> FALSE, sets |-> 0]

\* the sticker tasks of a long list are followed in index order only
MayFinish(i) ==
    /\ i \in 1..Len(pack.stickers)
    /\ i \notin pack.done
    /\ Len(pack.stickers) > MaxShortPack => \A j \in 1..(i - 1) : j \in pack.done

\* lines 322-330, then the cacheableKey test of line 345
PackValidate ==
    /\ pack.pc = "start"
    /\ LET v == ValidatePack(pack.stickers, pack.cover # "none")
       IN  pack' = IF v # NoErr
                   THEN [pack EXCEPT !.pc = "threw", !.err = v, !.valid = "rejected"]
                   ELSE [pack EXCEPT !.valid = "passed",
                                     !.pc = IF pack.key # "" THEN "lookup"
                                            ELSE "convert"]
    /\ UNCHANGED <<genVars, wrapVars, mediaVars, utilVars>>

\* await options.mediaCache.get(cacheableKey) and the hit branch
PackLookup ==
    /\ pack.pc = "lookup"
    /\ pack' = IF pack.key \in DOMAIN pack.cache
               THEN [pack EXCEPT !.pc = "returned", !.looked = 1,
                                 !.out = Decode(pack.cache[pack.key])]
               ELSE [pack EXCEPT !.pc = "convert", !.looked = 1]
    /\ UNCHANGED <<genVars, wrapVars, mediaVars, utilVars>>

\* the task of sticker i runs to its end: it stores its file under its hash
\* name, or throws, which rejects Promise.all
StickerTask(i) ==
    /\ pack.pc = "convert"
    /\ MayFinish(i)
    /\ LET e == ConvertError(pack.stickers[i], i - 1, pack.sharp)
       IN  pack' = IF e # NoErr
                   THEN [pack EXCEPT !.pc = "threw", !.err = e]
                   ELSE [pack EXCEPT !.done = pack.done \cup {i},
                                     !.stickerData = pack.stickerData
                                         \cup StickerData(pack.stickers, {i})]
    /\ UNCHANGED <<genVars, wrapVars, mediaVars, utilVars>>

\* const stickerMetadata = await Promise.all(stickerPromises)
PackJoin ==
    /\ pack.pc = "convert"
    /\ pack.done = 1..Len(pack.stickers)
    /\ pack' = [pack EXCEPT !.meta = StickerMetadata(pack.stickers), !.pc = "cover"]
    /\ UNCHANGED <<genVars, wrapVars, mediaVars, utilVars>>

\* lines 396-417: the cover becomes the tray icon entry
PackCover ==
    /\ pack.pc = "cover"
    /\ pack' = IF pack.cover = "webp" \/ pack.sharp
               THEN [pack EXCEPT !.stickerData = pack.stickerData \cup {TrayIconFileName},
                                 !.pc = "zip"]
               ELSE [pack EXCEPT !.pc = "threw",
                                 !.err = Boom("No image processing library (sharp) available", 500)]
    /\ UNCHANGED <<genVars, wrapVars, mediaVars, utilVars>>

\* zip(stickerData) and encryptedStream(zipBuffer, 'sticker-pack')
PackZip ==
    /\ pack.pc = "zip"
    /\ pack' = [pack EXCEPT !.archive = pack.stickerData, !.tmp = {"pack.enc"},
                            !.pc = "upload"]
    /\ UNCHANGED <<genVars, wrapVars, mediaVars, utilVars>>

\* await options.upload(encFilePath); await fs.unlink(encFilePath)
PackUpload ==
    /\ pack.pc = "upload"
    /\ \E ok \in BOOLEAN :
         pack' = IF ok
                 THEN [pack EXCEPT !.uploads = 1, !.tmp = {}, !.pc = "thumbnail"]
                 ELSE [pack EXCEPT !.uploads = 1, !.pc = "threw", !.err = UploadError]
    /\ UNCHANGED <<genVars, wrapVars, mediaVars, utilVars>>

\* lines 454-499: the thumbnail is best effort; a failed thumbnail upload skips
\* the unlink of line 487
PackThumbnail ==
    /\ pack.pc = "thumbnail"
    /\ \E r \in {"ok", "nothumbnail", "uploadfailed"} :
         pack' = [pack EXCEPT
                    !.out = PackContent(pack.meta, r = "ok"),
                    !.uploads = IF r = "nothumbnail" THEN 1 ELSE 2,
                    !.tmp = IF r = "uploadfailed" THEN {"thumb.enc"} ELSE {},
                    !.pc = IF pack.key # "" THEN "store" ELSE "returned"]
    /\ UNCHANGED <<genVars, wrapVars, mediaVars, utilVars>>

\* await options.mediaCache.set(cacheableKey, encode(content)); return
PackStore ==
    /\ pack.pc = "store"
    /\ pack' = [pack EXCEPT !.cache = (pack.key :> Encode(pack.out)) @@ pack.cache,
                            !.pc = "returned", !.sets = 1]
    /\ UNCHANGED <<genVars, wrapVars, mediaVars, utilVars>>

PackNext ==
    \/ PackValidate \/ PackLookup \/ (\E i \in 1..(MaxStickers + 2) : StickerTask(i))
    \/ PackJoin \/ PackCover \/ PackZip \/ PackUpload \/ PackThumbnail \/ PackStore

\* the stickers of the short packs: content 1 or 2, given as WebP or not, and
\* an oversize WebP
StickerKinds ==
    {Sticker(id, webp, big) : id \in 1..2, webp \in BOOLEAN, big \in BOOLEAN}

RECURSIVE SeqsUpTo(_, _)
SeqsUpTo(S, n) ==
    IF n = 0 THEN {<<>>}
    ELSE LET shorter == SeqsUpTo(S, n - 1)
         IN  shorter \cup {Append(q, x) : q \in shorter, x \in S}

\* long packs around the limit: all contents different, or all the same
LongPack(n, same) == [i \in 1..n |-> Sticker(IF same THEN 1 ELSE i, TRUE, FALSE)]

NewPack(stickers, cover, sharp, allUrls, hasCache, cached) ==
    LET k == PackCacheableKey(stickers, allUrls, hasCache)
    IN  [PackIdle EXCEPT !.stickers = stickers, !.cover = cover, !.sharp = sharp,
                         !.key = k, !.allUrls = allUrls,
                         !.cache = IF cached /\ k # "" THEN (k :> EarlierPack)
                                   ELSE <<>>]

PackInit ==
    \/ \E q \in SeqsUpTo({x \in StickerKinds : x.big => x.webp}, MaxShortPack),
          cover \in {"none", "webp", "png"}, sharp \in BOOLEAN,
          cfg \in {"nocache", "buffers", "urls", "cachedbuffers", "cachedurls"} :
         pack = NewPack(q, cover, sharp, cfg \in {"urls", "cachedurls"},
                        cfg # "nocache", cfg \in {"cachedbuffers", "cachedurls"})
    \/ \E n \in (MaxStickers - 1)..(MaxStickers + 2), same \in BOOLEAN,
          cover \in {"none", "webp"}, hasCache \in BOOLEAN :
         pack = NewPack(LongPack(n, same), cover, TRUE, FALSE, hasCache, FALSE)

InitPack == PackInit /\ GenOff /\ WrapOff /\ MediaOff /\ UtilOff

SpecPack == InitPack /\ [][PackNext]_vars

NothingStarted ==
    /\ pack.looked = 0
    /\ pack.done = {}
    /\ pack.stickerData = {}
    /\ pack.uploads = 0
    /\ pack.tmp = {}

\* C7: once validation has run, a pack with 0 stickers, with more than 60
\* stickers or without a cover has been rejected with its 400 error before any
\* cache lookup, conversion or upload, and every pack of 1 to 60 stickers with
\* a cover has passed
C7_PackValidation ==
    pack.valid # "pending" =>
        LET n == Len(pack.stickers)
            rejected == pack.valid = "rejected" /\ pack.pc = "threw"
                        /\ pack.err.status = 400 /\ NothingStarted
        IN  /\ n = 0 =>
                rejected
                /\ pack.err.msg = "Sticker pack must contain at least one sticker"
            /\ n > 60 =>
                rejected
                /\ pack.err.msg = "Sticker pack exceeds the maximum limit of 60 stickers"
            /\ pack.cover = "none" => rejected
            /\ (n \in 1..60 /\ pack.cover # "none") => pack.valid = "passed"

\* reached: a pack of 61 stickers rejected, and nothing else done
C7_Witness ==
    /\ Len(pack.stickers) = 61
    /\ pack.valid = "rejected"
    /\ pack.err.msg = "Sticker pack exceeds the maximum limit of 60 stickers"
    /\ NothingStarted

Zipped == pack.pc \in {"upload", "thumbnail", "store"} \/ pack.uploads > 0

MetadataInArchive ==
    /\ Len(pack.meta) = Len(pack.stickers)
    /\ \A i \in 1..Len(pack.meta) : pack.meta[i].fileName \in pack.archive

\* C8: the archive of a pack of N valid stickers and a cover has exactly N + 1
\* entries, and the metadata list names N files that are all in the archive
C8_ArchiveHasNPlusOneEntries ==
    Zipped =>
        /\ Cardinality(pack.archive) = Len(pack.stickers) + 1
        /\ MetadataInArchive

DistinctContents == {pack.stickers[i].id : i \in 1..Len(pack.stickers)}

\* C8 as the code has it: the archive has one entry per distinct sticker
\* content plus the cover, which is N + 1 entries exactly when the N contents
\* all differ; the metadata list names N files that are all in the archive
C8_ArchiveHasOneEntryPerDistinctSticker ==
    Zipped =>
        /\ Cardinality(pack.archive) = Cardinality(DistinctContents) + 1
        /\ TrayIconFileName \in pack.archive
        /\ MetadataInArchive
        /\ (Cardinality(pack.archive) = Len(pack.stickers) + 1
              <=> Cardinality(DistinctContents) = Len(pack.stickers))

\* reached: a zipped pack of two stickers with the same content, whose archive
\* holds two entries
C8_Witness ==
    /\ Zipped
    /\ Len(pack.stickers) = 2
    /\ pack.stickers[1].id = pack.stickers[2].id
    /\ Cardinality(pack.archive) = 2

-----------------------------------------------------------------------------
(* interactiveAsTemplate on a content that is not interactive *)

\* a finished call whose descriptor asks for a template around a content that
\* is not an interactive message
TemplateOnNonInteractive ==
    /\ GenDone
    /\ "interactiveAsTemplate" \in gen.given.keys
    /\ ~Has(gen.pre, "interactiveMessage")

\* C12: interactiveAsTemplate on a content that is not an interactive message
\* fails with a 400 error, whatever the other modifiers, groupStatus included
C12_TemplateNeedsInteractive ==
    TemplateOnNonInteractive => gen.pc = "threw" /\ gen.err.status = 400

\* C12 on a content that was built: with groupStatus also set the call must
\* still fail with the 400 error
C12_TemplateWithGroupStatus ==
    (TemplateOnNonInteractive /\ "groupStatus" \in gen.given.keys
     /\ gen.given.keys \cap {"raw", "edit"} = {} /\ gen.pre # <<>>)
        => gen.pc = "threw" /\ gen.err.status = 400

-----------------------------------------------------------------------------
(* normalizeMessageContent, one loop iteration at a time, on a content graph  *)
(* whose wrappers refer to their inner message by reference                   *)

\* heap[ref] is the object a reference points to; in a wrapper object the
\* field message holds the reference of the inner content
WrapperNode(key, ref) == Obj1(key, [message |-> ref])
LeafNode == Obj1("extendedTextMessage", [text |-> "hi"])

\* d wrapper objects 1..d, each around the next; the last wraps a plain
\* content (object d + 1) or, for a cyclic tree, the object `back`
Chain(keys, back) ==
    LET d == Len(keys)
    IN  [n \in 1..(d + 1) |->
            IF n = d + 1 THEN LeafNode
            ELSE WrapperNode(keys[n], IF n = d /\ back # 0 THEN back ELSE n + 1)]

RECURSIVE KeySeqs(_)
KeySeqs(n) ==
    IF n = 0 THEN {<<>>}
    ELSE {Append(q, k) : q \in KeySeqs(n - 1),
                         k \in {"ephemeralMessage", "viewOnceMessageV2"}}

NormInit ==
    \E d \in 0..MaxNest :
      \E keys \in KeySeqs(d), back \in 0..d :
        norm = [pc |-> "loop", heap |-> Chain(keys, back), cur |-> 1, i |-> 0]

\* the loop condition i < 5, taken one iteration too far
LoopRunsOnceMore(i) == i <= UnwrapLimit

\* the loop condition i < 5
LoopRuns(i) == i < UnwrapLimit

\* const inner = getFutureProofMessage(content); content = inner.message; i++
NormIterate ==
    /\ norm.pc = "loop"
    /\ LoopRuns(norm.i)
    /\ hasFutureProofMessage(norm.heap[norm.cur])
    /\ norm' = [norm EXCEPT !.cur = getFutureProofMessage(norm.heap[norm.cur]).message,
                            !.i = norm.i + 1]
    /\ UNCHANGED <<wrapIn, wrapFlag, wrapOut, genVars, mediaVars, packVars, utilVars>>

\* if (!inner) break; return content
NormBreak ==
    /\ norm.pc = "loop"
    /\ LoopRuns(norm.i)
    /\ ~hasFutureProofMessage(norm.heap[norm.cur])
    /\ norm' = [norm EXCEPT !.pc = "returned"]
    /\ UNCHANGED <<wrapIn, wrapFlag, wrapOut, genVars, mediaVars, packVars, utilVars>>

\* the loop condition fails; return content
NormExit ==
    /\ norm.pc = "loop"
    /\ ~LoopRuns(norm.i)
    /\ norm' = [norm EXCEPT !.pc = "returned"]
    /\ UNCHANGED <<wrapIn, wrapFlag, wrapOut, genVars, mediaVars, packVars, utilVars>>

NormNext == NormIterate \/ NormBreak \/ NormExit

InitNorm == NormInit /\ WrapStepOff /\ GenOff /\ MediaOff /\ PackOff /\ UtilOff

\* the function is synchronous: once called, its loop keeps running
SpecNorm == InitNorm /\ [][NormNext]_vars /\ WF_vars(NormNext)

\* the number of wrapper levels between the root and a plain content, or
\* MaxNest + 1 when there is none within MaxNest + 1 levels (a cyclic tree)
RECURSIVE Depth(_, _, _)
Depth(heap, ref, n) ==
    IF n > MaxNest \/ ~hasFutureProofMessage(heap[ref]) THEN n
    ELSE Depth(heap, heap[ref][1].v.message, n + 1)

\* the object reached from ref through n wrappers
RECURSIVE Inner(_, _, _)
Inner(heap, ref, n) ==
    IF n = 0 THEN ref ELSE Inner(heap, heap[ref][1].v.message, n - 1)

NormReturned == norm.pc = "returned"

\* C13: normalizeMessageContent terminates after at most 5 unwrap steps, also
\* on a cyclic tree; through at most 5 wrapper levels its result has no wrapper
\* key, through more it is the content reached after exactly 5 unwraps
C13_NormalizeTerminates ==
    /\ <>NormReturned
    /\ [](norm.i <= 5)
    /\ [](NormReturned =>
            LET d == Depth(norm.heap, 1, 0)
            IN  /\ d <= 5 => /\ ~hasFutureProofMessage(norm.heap[norm.cur])
                             /\ norm.i = d
                /\ d > 5 => /\ norm.i = 5
                            /\ norm.cur = Inner(norm.heap, 1, 5))

\* reached: a call on a cyclic tree that has returned after 5 unwraps
C13_Witness ==
    /\ NormReturned
    /\ norm.i = 5
    /\ \E n \in DOMAIN norm.heap :
         hasFutureProofMessage(norm.heap[n]) /\ norm.heap[n][1].v.message <= n

-----------------------------------------------------------------------------
(* Failures of the two tasks of prepareWAMessageMedia *)

Range(q) == {q[i] : i \in DOMAIN q}

\* the fields of the media message inside a returned fragment
FragmentFields(out) == DOMAIN out[1].v

\* the derived fields the call set out to extract
Wanted(x) == Range(ExtractSteps(x, x.dest, x.bg))

\* C14: a failure of an extraction step never fails the call: when the upload
\* succeeds the call returns a fragment that lacks only the derived field whose
\* extraction failed
C14_ExtractionFailureLosesOneField ==
    \A c \in Callers :
        (Finished(c) /\ media[c].upload = "ok" /\ media[c].failed # "") =>
            /\ media[c].pc = "returned"
            /\ \A f \in Wanted(media[c].input) \ {media[c].failed} :
                   f \in FragmentFields(media[c].out)

\* C15: when the uploader fails the call fails with the uploader's error as it
\* is, returns no fragment, does not call the uploader again and never calls
\* mediaCache.set
C15_UploadFailureIsFatal ==
    \A c \in Callers :
        media[c].upload = "failed" =>
            /\ media[c].pc \in {"join", "cleanup", "cleanup2", "threw"}
            /\ media[c].pc = "threw" => media[c].err = UploadError
            /\ media[c].out = <<>>
            /\ media[c].uploads = 1
            /\ media[c].sets = 0
            /\ CallKey(media[c].input) # "" /\ media[c].gets = 1
                   => CallKey(media[c].input) \notin DOMAIN cache

\* reached: a cacheable call that has thrown the uploader's error, the cache
\* still without an entry for its key
C15_Witness ==
    \E c \in Callers :
        /\ media[c].pc = "threw"
        /\ media[c].upload = "failed"
        /\ media[c].err = UploadError
        /\ CallKey(media[c].input) # ""
        /\ CallKey(media[c].input) \notin DOMAIN cache

-----------------------------------------------------------------------------
(* Two prepareWAMessageMedia calls in flight at once on one cache            *)

\* both callers are free to call, with one descriptor whose key is cacheable
RaceInit ==
    /\ \E x \in MediaCalls :
          WellFormedCall(x) /\ CallKey(x) # "" /\ x.bg = "none" /\ inputs = {x}
    /\ media = [c \in Callers |-> IdleCall]
    /\ cache = <<>>
    /\ files = {}
    /\ calls = 0

InitRace == RaceInit /\ GenOff /\ WrapOff /\ PackOff /\ UtilOff

SpecRace == InitRace /\ [][MediaNext]_vars

\* mediaCache.set by caller c replaces the entry of its key by its whole
\* serialized fragment and touches no other entry
SetWritesWholeFragment(c) ==
    (media[c].pc = "store" /\ media'[c].pc = "returned") =>
        /\ DOMAIN cache' = DOMAIN cache \cup {CallKey(media[c].input)}
        /\ cache'[CallKey(media[c].input)] = Encode(media[c].out)
        /\ \A k \in DOMAIN cache : k # CallKey(media[c].input) => cache'[k] = cache[k]

\* every other step leaves the cache alone
OnlySetWrites ==
    (\A c \in Callers : ~(media[c].pc = "store" /\ media'[c].pc = "returned"))
        => cache' = cache

\* a fragment as the build step makes it, for some outcome of extraction
CompleteFragment(obj, x) ==
    \E n \in 0..Len(ExtractSteps(x, x.dest, x.bg)) :
        obj = BuildFragment(x, x.dest, SubSeq(ExtractSteps(x, x.dest, x.bg), 1, n))

\* a call that finds the entry returns the fragment stored there
LaterCallReturnsEntry(c) ==
    (/\ media[c].pc = "lookup" /\ media'[c].pc # "lookup"
     /\ CallKey(media[c].input) \in DOMAIN cache) =>
        /\ media'[c].pc = "returned"
        /\ media'[c].out = Decode(cache[CallKey(media[c].input)])

\* both calls of the race missed the cache, did the work and have returned
BothWorked ==
    \A c \in Callers :
        media[c].pc = "returned" /\ ~media[c].hit /\ media[c].uploads = 1
                                 /\ media[c].sets = 1

\* C16 (race part): racing calls may both upload; each set writes the whole
\* fragment of its caller, nothing else writes, so every entry is one caller's
\* complete fragment and after the race it is the fragment of a racing caller
C16_LastWriterWins ==
    /\ [][\A c \in Callers : SetWritesWholeFragment(c)]_vars
    /\ [][OnlySetWrites]_vars
    /\ [](\A k \in DOMAIN cache :
             \E x \in inputs : CallKey(x) = k /\ CompleteFragment(Decode(cache[k]), x))
    /\ [](BothWorked =>
             \E c \in Callers :
                 cache[CallKey(media[c].input)] = Encode(media[c].out))

\* C16: when two calls race on one cacheable key with an empty cache both may
\* encrypt and upload, the entry is always the complete fragment of the call
\* whose set ran last, and a later call on that key returns that fragment
C16_RaceThenLaterCallReturnsEntry ==
    /\ [][\A c \in Callers : SetWritesWholeFragment(c)]_vars
    /\ [][OnlySetWrites]_vars
    /\ [][\A c \in Callers : LaterCallReturnsEntry(c)]_vars

C16_Witness == BothWorked /\ media["A"].out # media["B"].out

\* what does hold of the later call: it returns the entry unless the entry was
\* written for a ptv video, whose fragment has no videoMessage field
C16_LaterCallReturnsEntryUnlessPtv ==
    [][\A c \in Callers : ~media[c].input.ptv => LaterCallReturnsEntry(c)]_vars

-----------------------------------------------------------------------------
(* Which sources reach the media cache                                        *)

\* prepareWAMessageMedia: a call whose source is a buffer or a stream calls
\* neither mediaCache.get nor mediaCache.set
C17_MediaCacheOnlyForUrlSources ==
    \A c \in Callers :
        media[c].input.src = "buffer" =>
            media[c].gets = 0 /\ media[c].sets = 0 /\ ~media[c].hit

\* C17: the media cache is read or written only for sources that carry a URL:
\* prepareStickerPackMessage given stickers as buffers calls neither
\* mediaCache.get nor mediaCache.set, and returns the pack made of its own
\* stickers, never an entry another buffer pack has left
C17_PackCacheOnlyForUrlSources ==
    ~pack.allUrls =>
        /\ pack.looked = 0
        /\ pack.sets = 0
        /\ pack.pc = "returned" => Len(pack.out.stickers) = Len(pack.stickers)

\* C18: whatever calls have shared the cache, a fragment returned for a chat
\* carries mediaKey and fileEncSha256 and a fragment returned for a newsletter
\* carries neither
C18_EncryptionFieldsFollowDestination ==
    \A c \in Callers :
        media[c].pc = "returned" =>
            LET frag == media[c].out[1].v
            IN  IF isJidNewsletter(media[c].input.dest)
                THEN "mediaKey" \notin DOMAIN frag /\ "fileEncSha256" \notin DOMAIN frag
                ELSE "mediaKey" \in DOMAIN frag /\ "fileEncSha256" \in DOMAIN frag

\* what holds: a call that missed the cache returns the fields of its own
\* destination
C18_FreshFragmentFollowsDestination ==
    \A c \in Callers :
        (media[c].pc = "returned" /\ ~media[c].hit) =>
            LET frag == media[c].out[1].v
            IN  IF isJidNewsletter(media[c].input.dest)
                THEN "mediaKey" \notin DOMAIN frag /\ "fileEncSha256" \notin DOMAIN frag
                ELSE "mediaKey" \in DOMAIN frag /\ "fileEncSha256" \in DOMAIN frag

-----------------------------------------------------------------------------
(* prepareNativeFlowButtons, through the nativeFlow branch of the compiler    *)

\* the buttons of a run: every mix of truthy properties with absent ones, with
\* null ones and with falsy ones, and two buttons with a text of their own
ButtonKinds ==
    {Button("label", id, "absent", "absent", "absent") : id \in {"absent", "v"}}
    \cup UNION {{Button("", id, copy, url, call) :
                    id \in {f, "v"}, copy \in {f, "v"}, url \in {f, "v"},
                    call \in {f, "v"}} : f \in {"absent", "null", "empty"}}

ButtonScenarios ==
    \E q \in SeqsUpTo(ButtonKinds, MaxButtons), arr \in BOOLEAN :
        /\ message = [BaseMessage EXCEPT
                         !.keys = {"text", "nativeFlow"}
                                  \cup (IF arr THEN {} ELSE {"couponCode", "optionText"}),
                         !.nativeFlow = [isArray |-> arr,
                                         items |-> IF arr THEN q ELSE <<>>,
                                         buttons |-> IF arr THEN <<>> ELSE q]]
        /\ options = BaseOptions

ButtonsInit ==
    /\ ButtonScenarios
    /\ gen = [GenIdle EXCEPT !.pc = "ready", !.given = message]

InitButtons == ButtonsInit /\ WrapOff /\ MediaOff /\ PackOff /\ UtilOff

SpecButtons == InitButtons /\ [][GenNext]_vars

ButtonProperties == <<"id", "copy", "url", "call">>

ButtonNames == <<"quick_reply", "cta_copy", "cta_url", "cta_call">>

\* the positions of a button's truthy properties, in the order id, copy, url, call
TruthyAt(button) == {n \in 1..4 : button[ButtonProperties[n]] = "v"}

FirstTruthy(button) == CHOOSE n \in TruthyAt(button) : \A k \in TruthyAt(button) : n <= k

GivenButtons ==
    IF gen.given.nativeFlow.isArray THEN gen.given.nativeFlow.items
    ELSE gen.given.nativeFlow.buttons

BuiltButtons == Get(gen.m, "interactiveMessage").nativeFlowMessage.buttons

-----------------------------------------------------------------------------
(* Headers of nativeFlow messages and of carousel cards                       *)

Card(mediaType, product, text, caption) ==
    [mediaType |-> mediaType, product |-> product, businessOwnerJid |-> TRUE,
     text |-> text, caption |-> caption]

\* a card names a medium or a product, and has a text, a caption or neither
CardKinds ==
    {Card(mt, FALSE, t, c) : mt \in {"image", "video", "document", "audio", "none"},
                             t \in BOOLEAN, c \in BOOLEAN}
    \cup {Card("image", TRUE, t, c) : t \in BOOLEAN, c \in BOOLEAN}

\* a nativeFlow descriptor without text over every kind of content, with a
\* caption or not, and carousels of every mix of cards
HeaderScenarios ==
    /\ options = BaseOptions
    /\ \/ \E mt \in MediaTypes \cup {"none"}, cap \in {{}, {"caption"}},
             foot \in {{}, {"footer"}} :
            message = [BaseMessage EXCEPT !.keys = {"nativeFlow"} \cup cap \cup foot,
                                          !.mediaType = mt]
       \/ \E tag \in {"location", "product"}, cap \in {{}, {"caption"}},
             foot \in {{}, {"footer"}} :
            message = [BaseMessage EXCEPT !.keys = {"nativeFlow", tag} \cup cap \cup foot]
       \/ \E q \in SeqsUpTo(CardKinds, MaxCards) :
            message = [BaseMessage EXCEPT !.keys = {"text", "cards"}, !.cards = q]

HeadersInit ==
    /\ HeaderScenarios
    /\ gen = [GenIdle EXCEPT !.pc = "ready", !.given = message]

InitHeaders == HeadersInit /\ WrapOff /\ MediaOff /\ PackOff /\ UtilOff

SpecHeaders == InitHeaders /\ [][GenNext]_vars

HeaderKinds == {"image", "video", "document", "product", "location"}

\* what the content of a nativeFlow descriptor resolves to
NativeFlowHeaderKind(msg) ==
    IF "location" \in msg.keys THEN "location"
    ELSE IF "product" \in msg.keys THEN "product"
    ELSE msg.mediaType

CardHeaderKind(card) == IF card.product THEN "product" ELSE card.mediaType

Rejected400 == gen.pc = "threw" /\ gen.err.status = 400

NativeFlowWithoutText ==
    /\ gen.pc \in {"returned", "threw"}
    /\ "nativeFlow" \in gen.given.keys
    /\ "text" \notin gen.given.keys

Carousel ==
    /\ gen.pc \in {"returned", "threw"}
    /\ "cards" \in gen.given.keys

\* C20: a nativeFlow descriptor without text, and a carousel, is compiled when
\* its header (every card's header) is an image, a video, a document, a
\* product or a location, and is rejected with a 400 error otherwise
C20_HeaderCheckedBeforeBuilt ==
    /\ NativeFlowWithoutText =>
         IF NativeFlowHeaderKind(gen.given) \in HeaderKinds
         THEN gen.pc = "returned" ELSE Rejected400
    /\ Carousel =>
         IF \A i \in 1..Len(gen.given.cards) :
                CardHeaderKind(gen.given.cards[i]) \in HeaderKinds
         THEN gen.pc = "returned" ELSE Rejected400

\* what holds of nativeFlow: with a caption the header is checked, five kinds
\* pass and the others get the 400 error; without one every content gets a
\* TypeError, unless prepareWAMessageMedia has already rejected the descriptor
C20_NativeFlowHeaderCheckedWithCaption ==
    NativeFlowWithoutText =>
        IF NativeFlowHeaderKind(gen.given) = "none" THEN Rejected400
        ELSE IF "caption" \notin gen.given.keys
        THEN gen.pc = "threw" /\ gen.err = TypeError
        ELSE IF NativeFlowHeaderKind(gen.given) \in HeaderKinds
        THEN gen.pc = "returned" ELSE Rejected400

\* what holds of a carousel: a card that is not an image, a video or a product
\* has the carousel rejected with a 400 error
C20_CardHeaderIsImageVideoOrProduct ==
    (Carousel /\ \E i \in 1..Len(gen.given.cards) :
                    CardHeaderKind(gen.given.cards[i]) \notin {"image", "video", "product"})
        => gen.pc = "threw"

-----------------------------------------------------------------------------
(* getBizBinaryNode: the hint node for a compiled message                     *)

bizFlowSet ==
    {"mpm", "cta_catalog", "send_location", "call_permission_request",
     "wa_payment_transaction_details", "automated_greeting_message_view_catalog"}

\* a binary node; attrs is a set of <<name, value>> pairs, content a list of
\* nodes (empty for content: undefined)
BinaryNode(tag, attrs, content) == [tag |-> tag, attrs |-> attrs, content |-> content]

bizBinaryQualityAttribute ==
    BinaryNode("quality_control", {<<"source_type", "third_party">>}, <<>>)

baseBizAttrs == {}

createNativeFlowContent(v, name) ==
    <<BinaryNode("native_flow", {<<"v", v>>, <<"name", name>>}, <<>>)>>

createInteractiveContent(nativeFlowContent) ==
    <<BinaryNode("interactive", {<<"type", "native_flow">>, <<"v", "1">>},
                 nativeFlowContent),
      bizBinaryQualityAttribute>>

listContent ==
    <<BinaryNode("list", {<<"v", "2">>, <<"type", "product_list">>}, <<>>),
      bizBinaryQualityAttribute>>

defaultContent == <<bizBinaryQualityAttribute>>

\* the shape of a compiled message: interactive is "absent", "plain" (an
\* interactiveMessage without nativeFlowMessage), "nobuttons" (a
\* nativeFlowMessage without a buttons array) or "nativeFlow"; names are the
\* buttons' name fields, "undefined" for a button without one
BizMessage(interactive, names, buttonsMessage, templateMessage, listMessage) ==
    [interactive |-> interactive, names |-> names, buttonsMessage |-> buttonsMessage,
     templateMessage |-> templateMessage, listMessage |-> listMessage]

\* message.interactiveMessage?.nativeFlowMessage is an object
HasNativeFlowMessage(bm) == bm.interactive \in {"nobuttons", "nativeFlow"}

\* nativeFlowMessage?.buttons?.[0]?.name
firstButtonName(bm) ==
    IF bm.interactive = "nativeFlow" /\ Len(bm.names) > 0 THEN bm.names[1]
    ELSE "undefined"

\* a function that tests listMessage before the three interactive kinds
getBizBinaryNodeListFirst(bm) ==
    IF firstButtonName(bm) \in {"review_and_pay", "payment_info"}
    THEN BinaryNode("biz",
                    {<<"native_flow_name",
                       IF firstButtonName(bm) = "review_and_pay" THEN "order_details"
                       ELSE firstButtonName(bm)>>},
                    defaultContent)
    ELSE IF HasNativeFlowMessage(bm) /\ firstButtonName(bm) \in bizFlowSet
    THEN BinaryNode("biz", baseBizAttrs,
                    createInteractiveContent(
                        createNativeFlowContent("2", firstButtonName(bm))))
    ELSE IF bm.listMessage
    THEN BinaryNode("biz", baseBizAttrs, listContent)
    ELSE IF HasNativeFlowMessage(bm) \/ bm.buttonsMessage \/ bm.templateMessage
    THEN BinaryNode("biz", baseBizAttrs,
                    createInteractiveContent(createNativeFlowContent("9", "mixed")))
    ELSE BinaryNode("biz", baseBizAttrs, defaultContent)

getBizBinaryNode(bm) ==
    IF firstButtonName(bm) \in {"review_and_pay", "payment_info"}
    THEN BinaryNode("biz",
                    {<<"native_flow_name",
                       IF firstButtonName(bm) = "review_and_pay" THEN "order_details"
                       ELSE firstButtonName(bm)>>},
                    defaultContent)
    ELSE IF HasNativeFlowMessage(bm) /\ firstButtonName(bm) \in bizFlowSet
    THEN BinaryNode("biz", baseBizAttrs,
                    createInteractiveContent(
                        createNativeFlowContent("2", firstButtonName(bm))))
    ELSE IF HasNativeFlowMessage(bm) \/ bm.buttonsMessage \/ bm.templateMessage
    THEN BinaryNode("biz", baseBizAttrs,
                    createInteractiveContent(createNativeFlowContent("9", "mixed")))
    ELSE IF bm.listMessage
    THEN BinaryNode("biz", baseBizAttrs, listContent)
    ELSE BinaryNode("biz", baseBizAttrs, defaultContent)

ButtonNameValues ==
    bizFlowSet \cup {"review_and_pay", "payment_info", "quick_reply", "undefined"}

BizMessages ==
    {BizMessage(i, <<>>, b, t, l) :
        i \in {"absent", "plain", "nobuttons"}, b \in BOOLEAN, t \in BOOLEAN,
        l \in BOOLEAN}
    \cup {BizMessage("nativeFlow", q, b, t, l) :
            q \in SeqsUpTo(ButtonNameValues, MaxButtons), b \in BOOLEAN,
            t \in BOOLEAN, l \in BOOLEAN}

BizIdle == [pc |-> "ready", message |-> BizMessage("absent", <<>>, FALSE, FALSE, FALSE),
            node |-> BinaryNode("", {}, <<>>)]

BizInit == \E bm \in BizMessages : biz = [BizIdle EXCEPT !.message = bm]

\* one call of getBizBinaryNode on the message
BizCall ==
    /\ biz.pc = "ready"
    /\ biz' = [biz EXCEPT !.pc = "returned", !.node = getBizBinaryNode(biz.message)]
    /\ UNCHANGED <<coreVars, sync, dl, upd, node, carousel>>

BizNext == BizCall

CoreOff == GenOff /\ WrapOff /\ MediaOff /\ PackOff

InitBiz == BizInit /\ CoreOff /\ SyncOff /\ DownloadOff /\ UpdateOff /\ NodeOff
           /\ CarouselOff

SpecBiz == InitBiz /\ [][BizNext]_vars

\* the attribute of a node, "" when it has none of that name
Attr(n, name) ==
    IF \E p \in n.attrs : p[1] = name
    THEN (CHOOSE p \in n.attrs : p[1] = name)[2] ELSE ""

IsPaymentHint(n, name) ==
    /\ Attr(n, "native_flow_name") = name
    /\ Len(n.content) = 1 /\ n.content[1].tag = "quality_control"

IsFlowHint(n, v, name) ==
    /\ n.attrs = {}
    /\ Len(n.content) = 2
    /\ n.content[1].tag = "interactive"
    /\ Attr(n.content[1], "type") = "native_flow"
    /\ Len(n.content[1].content) = 1
    /\ n.content[1].content[1].tag = "native_flow"
    /\ Attr(n.content[1].content[1], "v") = v
    /\ Attr(n.content[1].content[1], "name") = name
    /\ n.content[2].tag = "quality_control"

IsListHint(n) ==
    /\ n.attrs = {}
    /\ Len(n.content) = 2
    /\ n.content[1].tag = "list"
    /\ Attr(n.content[1], "type") = "product_list"

IsDefaultHint(n) ==
    /\ n.attrs = {}
    /\ Len(n.content) = 1 /\ n.content[1].tag = "quality_control"

\* the name of the first button of the nativeFlowMessage, "undefined" if none
GivenFirstName ==
    IF biz.message.interactive = "nativeFlow" /\ biz.message.names # <<>>
    THEN Head(biz.message.names) ELSE "undefined"

\* C21: getBizBinaryNode returns a biz node for every message shape and leaves
\* the message as it was; the first of these cases that applies decides the
\* hint: a first button review_and_pay or payment_info, a first button of the
\* flow set, any nativeFlowMessage / buttonsMessage / templateMessage, a
\* listMessage, and the default
C21_BizHintByFirstMatch ==
    biz.pc = "returned" =>
        LET n == biz.node
            bm == biz.message
            interactive == bm.interactive \in {"nobuttons", "nativeFlow"}
                           \/ bm.buttonsMessage \/ bm.templateMessage
        IN  /\ n.tag = "biz"
            /\ GivenFirstName = "review_and_pay" => IsPaymentHint(n, "order_details")
            /\ GivenFirstName = "payment_info" => IsPaymentHint(n, "payment_info")
            /\ GivenFirstName \in bizFlowSet => IsFlowHint(n, "2", GivenFirstName)
            /\ (GivenFirstName \notin bizFlowSet \cup {"review_and_pay", "payment_info"}
                    /\ interactive) => IsFlowHint(n, "9", "mixed")
            /\ (~interactive /\ bm.listMessage) => IsListHint(n)
            /\ (~interactive /\ ~bm.listMessage) => IsDefaultHint(n)

\* the message is not touched by the call
C21_MessageUntouched == [][biz'.message = biz.message]_vars

\* reached: a message with a listMessage and a buttonsMessage, whose second
\* native-flow button only is review_and_pay, gets the mixed hint
C21_Witness ==
    /\ biz.pc = "returned"
    /\ biz.message.listMessage /\ biz.message.buttonsMessage
    /\ biz.message.names = <<"quick_reply", "review_and_pay">>
    /\ IsFlowHint(biz.node, "9", "mixed")

-----------------------------------------------------------------------------
(* How many builders one call runs                                            *)

\* C22: in one generateWAMessageContent call at most one builder runs, also
\* for a descriptor that combines text or a medium with buttons, sections,
\* templateButtons, nativeFlow, cards, requestPaymentFrom or invoiceNote
C22_AtMostOneBuilderRuns ==
    gen.pc \in {"returned", "threw"} => Len(gen.ran) <= 1

InteractiveOrder ==
    <<"buttons", "sections", "templateButtons", "nativeFlow", "cards",
      "requestPaymentFrom", "invoiceNote">>

\* the interactive tag of a descriptor that comes first in the second chain
FirstInteractive(keys) ==
    InteractiveOrder[CHOOSE i \in 1..Len(InteractiveOrder) :
                        /\ InteractiveOrder[i] \in keys
                        /\ \A j \in 1..(i - 1) : InteractiveOrder[j] \notin keys]

\* what holds: one builder of the primary chain runs, then, for a descriptor
\* with interactive tags, the builder of the first of them in the order of the
\* second chain and no other; a call that returns has run both
C22_OnePrimaryThenOneInteractive ==
    gen.pc \in {"returned", "threw"} =>
        /\ Len(gen.ran) \in 1..2
        /\ gen.ran[1] \notin InteractiveTags
        /\ Len(gen.ran) = 2 =>
               /\ gen.given.keys \cap InteractiveTags # {}
               /\ gen.ran[2] = FirstInteractive(gen.given.keys)
        /\ (/\ gen.pc = "returned" /\ gen.ran[1] # "raw"
            /\ gen.given.keys \cap InteractiveTags # {}) => Len(gen.ran) = 2

\* reached: a text with buttons and sections compiled by the text builder and
\* then the buttons builder
C22_Witness ==
    /\ gen.pc = "returned"
    /\ gen.given.keys = {"text", "buttons", "sections"}
    /\ gen.ran = <<"text", "buttons">>

-----------------------------------------------------------------------------
(* The caller's descriptor after the call                                     *)

\* C23: after a generateWAMessageContent call, returned or thrown, the
\* descriptor has exactly the fields and values it had before the call
C23_DescriptorReadOnly ==
    gen.pc \in {"returned", "threw"} => message = gen.given

\* what holds: the call removes nothing but raw and the wrapper flags
\* groupStatus, interactiveAsTemplate, ephemeral, viewOnceV2 and
\* viewOnceV2Extension, and changes no value
C23_OnlyConsumedFlagsRemoved ==
    gen.pc \in {"returned", "threw"} =>
        /\ message.keys \subseteq gen.given.keys
        /\ gen.given.keys \ message.keys \subseteq
               {"raw", "groupStatus", "interactiveAsTemplate", "ephemeral",
                "viewOnceV2", "viewOnceV2Extension"}
        /\ [message EXCEPT !.keys = gen.given.keys] = gen.given

-----------------------------------------------------------------------------
(* Where the context metadata of a descriptor is attached                     *)

\* the content inside the ephemeral / viewOnce / groupStatus wrappers
RECURSIVE Unwrapped(_)
Unwrapped(m) ==
    IF Len(m) > 0 /\ m[1].k \in OuterWrapperKeys \cup {"groupStatusMessageV2"}
    THEN Unwrapped(m[1].v.message)
    ELSE m

HasContextInfo(m, k) == Has(m, k) /\ "contextInfo" \in DOMAIN Get(m, k)

\* a compiled descriptor that carries context metadata
ContextCase ==
    /\ gen.pc = "returned"
    /\ gen.given.keys \cap (ContextTags \cup {"groupStatus"}) # {}
    /\ gen.given.keys \cap {"edit", "raw", "interactiveAsTemplate"} = {}
    /\ \A k \in OuterWrapperKeys \cup InnerWrapperKeys : ~Has(gen.pre, k)

\* C24: the context metadata of mentions, contextInfo, externalAdReply and
\* groupStatus is attached to the contextInfo of the content field of the
\* resolved kind (for a poll, the poll creation message), never to
\* messageContextInfo or another top-level key
C24_ContextOnContentField ==
    ContextCase =>
        /\ ~HasContextInfo(Unwrapped(gen.m), "messageContextInfo")
        /\ \A k \in ContentTypeKeys(Unwrapped(gen.m)) :
               HasContextInfo(Unwrapped(gen.m), k)

\* what holds: the metadata is attached to the first key of the content, which
\* is the content field for every kind but a poll, whose first key is
\* messageContextInfo
C24_ContextOnFirstKey ==
    ContextCase =>
        /\ HasContextInfo(Unwrapped(gen.m), Unwrapped(gen.m)[1].k)
        /\ \A i \in 2..Len(Unwrapped(gen.m)) :
               ~HasContextInfo(Unwrapped(gen.m), Unwrapped(gen.m)[i].k)
        /\ gen.ran # <<"poll">> =>
               Unwrapped(gen.m)[1].k \in ContentTypeKeys(Unwrapped(gen.m))
        /\ gen.ran = <<"poll">> => Unwrapped(gen.m)[1].k = "messageContextInfo"

-----------------------------------------------------------------------------
(* Temporary files of prepareStickerPackMessage                               *)

\* C25: once a prepareStickerPackMessage call has finished, whether the pack
\* upload failed, the thumbnail upload failed or all went well, no temporary
\* encrypted file it created remains
C25_PackTempFilesReleased ==
    pack.pc \in {"returned", "threw"} => pack.tmp = {}

\* what holds: a call in which every upload it made succeeded leaves no file
C25_PackTempFilesReleasedOnSuccess ==
    (pack.pc = "returned" /\ pack.looked + pack.uploads > 0
        /\ (pack.uploads = 2 => "thumbnailDirectPath" \in DOMAIN pack.out))
        => pack.tmp = {}

-----------------------------------------------------------------------------
(* processContactAction and emitSyncActionResults                             *)

\* jids by server; "" is a missing id, "null" a field that is null
PnJids == {"1@s.whatsapp.net", "2@s.whatsapp.net"}
LidJids == {"7@lid"}
OtherJids == {"5@g.us"}

isPnUser(jid) == jid \in PnJids
isLidUser(jid) == jid \in LidJids

ContactAction(fullName, firstName, username, lidJid, pnJid) ==
    [fullName |-> fullName, firstName |-> firstName, username |-> username,
     lidJid |-> lidJid, pnJid |-> pnJid]

\* a || b || ... || undefined over strings, "" and "null" being falsy
Falsy(x) == x \in {"", "null", "undefined"}
OrElse(x, y) == IF Falsy(x) THEN y ELSE x

ContactUpsert(action, id) ==
    [event |-> "contacts.upsert",
     data |-> [id |-> id,
               name |-> OrElse(action.fullName,
                               OrElse(action.firstName,
                                      OrElse(action.username, "undefined"))),
               lid |-> OrElse(action.lidJid, "undefined"),
               phoneNumber |-> IF isPnUser(id) THEN id
                               ELSE OrElse(action.pnJid, "undefined")]]

LidMappingUpdate(action, id) ==
    [event |-> "lid-mapping.update",
     data |-> [lid |-> action.lidJid, pn |-> id]]

\* a function that pushes the mapping event before the contact event
processContactActionMappingFirst(action, id) ==
    IF Falsy(id) THEN <<>>
    ELSE (IF ~Falsy(action.lidJid) /\ isLidUser(action.lidJid) /\ isPnUser(id)
          THEN <<LidMappingUpdate(action, id)>> ELSE <<>>)
         \o <<ContactUpsert(action, id)>>

processContactAction(action, id) ==
    IF Falsy(id) THEN <<>>
    ELSE <<ContactUpsert(action, id)>>
         \o (IF ~Falsy(action.lidJid) /\ isLidUser(action.lidJid) /\ isPnUser(id)
             THEN <<LidMappingUpdate(action, id)>> ELSE <<>>)

\* the event name emitSyncActionResults uses for a result
EmittedEvent(result) ==
    IF result.event = "contacts.upsert" THEN "contacts.upsert" ELSE "lid-mapping.update"

SyncIdle ==
    [pc |-> "ready", action |-> ContactAction("", "", "", "null", "null"), id |-> "",
     results |-> <<>>, i |-> 0, emitted |-> <<>>]

SyncInit ==
    \E id \in {""} \cup PnJids \cup LidJids \cup OtherJids,
       fullName \in {"", "Full"}, firstName \in {"", "First"}, username \in {"", "user"},
       lidJid \in {"null"} \cup LidJids \cup PnJids, pnJid \in {"null"} \cup PnJids :
        sync = [SyncIdle EXCEPT
                   !.id = id,
                   !.action = ContactAction(fullName, firstName, username, lidJid, pnJid)]

\* const results = processContactAction(action, id, logger)
SyncProcess ==
    /\ sync.pc = "ready"
    /\ sync' = [sync EXCEPT !.results = processContactAction(sync.action, sync.id),
                            !.pc = "emit", !.i = 1]
    /\ UNCHANGED <<coreVars, biz, dl, upd, node, carousel>>

\* one iteration of the for-of loop of emitSyncActionResults
SyncEmit ==
    /\ sync.pc = "emit"
    /\ sync.i <= Len(sync.results)
    /\ sync' = [sync EXCEPT
                   !.emitted = Append(@, [event |-> EmittedEvent(sync.results[sync.i]),
                                          data |-> sync.results[sync.i].data]),
                   !.i = @ + 1]
    /\ UNCHANGED <<coreVars, biz, dl, upd, node, carousel>>

\* the loop ends
SyncReturn ==
    /\ sync.pc = "emit"
    /\ sync.i > Len(sync.results)
    /\ sync' = [sync EXCEPT !.pc = "done"]
    /\ UNCHANGED <<coreVars, biz, dl, upd, node, carousel>>

SyncNext == SyncProcess \/ SyncEmit \/ SyncReturn

InitSync == SyncInit /\ CoreOff /\ BizOff /\ DownloadOff /\ UpdateOff /\ NodeOff
            /\ CarouselOff

SpecSync == InitSync /\ [][SyncNext]_vars

EventsOf(q) == [n \in 1..Len(q) |-> q[n].event]

\* C26: without an id processContactAction returns nothing; with one it
\* returns contacts.upsert first and once, followed by lid-mapping.update
\* exactly when action.lidJid is a LID user and id a phone-number user; and
\* emitSyncActionResults emits the results in that order, one emit per result
C26_ContactEventsInOrder ==
    sync.pc \in {"emit", "done"} =>
        /\ sync.id = "" => sync.results = <<>>
        /\ sync.id # "" =>
             EventsOf(sync.results) =
                 IF sync.action.lidJid \in LidJids /\ sync.id \in PnJids
                 THEN <<"contacts.upsert", "lid-mapping.update">>
                 ELSE <<"contacts.upsert">>
        /\ Len(sync.emitted) <= Len(sync.results)
        /\ \A n \in 1..Len(sync.emitted) :
               /\ sync.emitted[n].event = sync.results[n].event
               /\ sync.emitted[n].data = sync.results[n].data
        /\ sync.pc = "done" => Len(sync.emitted) = Len(sync.results)

\* reached: a phone-number id with a LID in the action, both events emitted
C26_Witness ==
    /\ sync.pc = "done"
    /\ sync.id = "1@s.whatsapp.net" /\ sync.action.lidJid = "7@lid"
    /\ EventsOf(sync.emitted) = <<"contacts.upsert", "lid-mapping.update">>
    /\ sync.emitted[2].data.lid = "7@lid" /\ sync.emitted[2].data.pn = sync.id

-----------------------------------------------------------------------------
(* downloadMediaMessage: one download, and one more after a media re-upload   *)

REUPLOAD_REQUIRED_STATUS == {410, 404}

\* an error: its status property and whether that property is a number
DownloadError(status, numeric) == [status |-> status, numeric |-> numeric]
\* the value of an error field while nothing has been thrown
NoDownloadError == DownloadError(-1, FALSE)

\* the errors a download can end with: a Boom of downloadMsg (no status
\* property), HTTP failures, and a status given as a string
DownloadErrors ==
    {DownloadError(0, FALSE), DownloadError(404, TRUE), DownloadError(410, TRUE),
     DownloadError(500, TRUE), DownloadError(404, FALSE)}

\* a catch handler that asks for a re-upload on every numeric status
ShouldReuploadAnyStatus(ctx, error) == ctx /\ error.numeric

\* ctx && typeof error?.status === 'number' &&
\* REUPLOAD_REQUIRED_STATUS.includes(error.status)
ShouldReupload(ctx, error) ==
    ctx /\ error.numeric /\ error.status \in REUPLOAD_REQUIRED_STATUS

\* downloadMsg throws by itself for a message without content or media
MessageKinds == {"none", "text", "image", "thumbnail"}

DownloadMsgError(kind) ==
    IF kind \in {"none", "text"} THEN {DownloadError(0, FALSE)} ELSE DownloadErrors

DownloadIdle ==
    [pc |-> "download", ctx |-> FALSE, type |-> "buffer", message |-> "image",
     downloads |-> 0, reuploads |-> 0, first |-> NoDownloadError,
     second |-> NoDownloadError, reuploaded |-> FALSE, err |-> NoDownloadError,
     out |-> "none"]

DownloadInit ==
    \E ctx \in BOOLEAN, type \in {"buffer", "stream"}, kind \in MessageKinds :
        dl = [DownloadIdle EXCEPT !.ctx = ctx, !.type = type, !.message = kind]

\* the first downloadMsg(): it returns the media, or throws into the catch
\* handler, which rethrows or goes on to the re-upload request
DownloadFirst ==
    /\ dl.pc = "download"
    /\ \/ /\ dl.message \in {"image", "thumbnail"}
          /\ dl' = [dl EXCEPT !.downloads = 1, !.pc = "returned", !.out = dl.type]
       \/ \E e \in DownloadMsgError(dl.message) :
            dl' = [dl EXCEPT !.downloads = 1, !.first = e,
                             !.pc = IF ShouldReupload(dl.ctx, e) THEN "reupload"
                                    ELSE "threw",
                             !.err = IF ShouldReupload(dl.ctx, e) THEN NoDownloadError
                                     ELSE e]
    /\ UNCHANGED <<coreVars, biz, sync, upd, node, carousel>>

\* message = await ctx.reuploadRequest(message)
DownloadReupload ==
    /\ dl.pc = "reupload"
    /\ \/ \E kind \in MessageKinds :
            dl' = [dl EXCEPT !.reuploads = @ + 1, !.reuploaded = TRUE,
                             !.message = kind, !.pc = "again"]
       \/ \E e \in DownloadErrors :
            dl' = [dl EXCEPT !.reuploads = @ + 1, !.pc = "threw", !.err = e]
    /\ UNCHANGED <<coreVars, biz, sync, upd, node, carousel>>

\* the downloadMsg() of the catch handler, on the re-uploaded message
DownloadSecond ==
    /\ dl.pc = "again"
    /\ \/ /\ dl.message \in {"image", "thumbnail"}
          /\ dl' = [dl EXCEPT !.downloads = @ + 1, !.pc = "returned", !.out = dl.type]
       \/ \E e \in DownloadMsgError(dl.message) :
            dl' = [dl EXCEPT !.downloads = @ + 1, !.second = e, !.pc = "threw",
                             !.err = e]
    /\ UNCHANGED <<coreVars, biz, sync, upd, node, carousel>>

DownloadNext == DownloadFirst \/ DownloadReupload \/ DownloadSecond

InitDownload == DownloadInit /\ CoreOff /\ BizOff /\ SyncOff /\ UpdateOff /\ NodeOff
                /\ CarouselOff

SpecDownload == InitDownload /\ [][DownloadNext]_vars

DownloadFinished == dl.pc \in {"returned", "threw"}

FirstFailed == dl.downloads >= 1 /\ dl.first # NoDownloadError

\* the first failure is one that asks for a re-upload, by the claim's words
NeedsReupload ==
    /\ dl.ctx
    /\ dl.first \in {DownloadError(410, TRUE), DownloadError(404, TRUE)}

\* C27: a call asks for a re-upload at most once, and only with a ctx after a
\* first failure of numeric status 410 or 404; it then downloads exactly once
\* more, on the re-uploaded message, and the failure of that attempt is
\* thrown; every other first failure is thrown without a re-upload request
C27_ReuploadAtMostOnce ==
    /\ dl.reuploads <= 1
    /\ dl.reuploads = 1 => NeedsReupload
    /\ dl.downloads <= 2
    /\ dl.downloads = 2 => dl.reuploaded
    /\ (DownloadFinished /\ dl.reuploaded) =>
           /\ dl.downloads = 2
           /\ IF dl.second # NoDownloadError
              THEN dl.pc = "threw" /\ dl.err = dl.second
              ELSE dl.pc = "returned"
    /\ (DownloadFinished /\ FirstFailed /\ ~NeedsReupload) =>
           /\ dl.pc = "threw" /\ dl.err = dl.first
           /\ dl.reuploads = 0 /\ dl.downloads = 1
    /\ (DownloadFinished /\ FirstFailed /\ NeedsReupload) => dl.reuploads = 1

\* reached: a 410, a re-upload, and a second download that fails with a 404,
\* which is thrown without another re-upload
C27_Witness ==
    /\ dl.pc = "threw"
    /\ dl.first = DownloadError(410, TRUE)
    /\ dl.second = DownloadError(404, TRUE)
    /\ dl.reuploads = 1 /\ dl.downloads = 2
    /\ dl.err = dl.second

-----------------------------------------------------------------------------
(* updateMessageWithReaction, updateMessageWithPollUpdate and                 *)
(* updateMessageWithEventResponse: one entry for each author                  *)

MaxUpdates == 3

\* message keys: my own, two group participants, and a direct chat with "a"
UpdateKeys ==
    {[fromMe |-> TRUE, participant |-> "", remoteJid |-> "g"],
     [fromMe |-> FALSE, participant |-> "a", remoteJid |-> "g"],
     [fromMe |-> FALSE, participant |-> "b", remoteJid |-> "g"],
     [fromMe |-> FALSE, participant |-> "", remoteJid |-> "a"]}

\* (key?.fromMe ? meId : key?.participant || key?.remoteJid) || ''
getKeyAuthor(key) ==
    IF key.fromMe THEN "me"
    ELSE IF key.participant # "" THEN key.participant ELSE key.remoteJid

Authors == {getKeyAuthor(k) : k \in UpdateKeys}

\* an update of call number id; value is the reaction text, the vote or the
\* response it carries
Update(key, value, id) == [key |-> key, value |-> value, id |-> id]

OtherAuthors(list, authorID) ==
    SelectSeq(list, LAMBDA r : getKeyAuthor(r.key) # authorID)

\* reaction.text = reaction.text || ''
ReactionText(text) == IF text = "undefined" THEN "" ELSE text

updateMessageWithReaction(reactions, reaction) ==
    Append(OtherAuthors(reactions, getKeyAuthor(reaction.key)),
           [reaction EXCEPT !.value = ReactionText(@)])

\* update.vote?.selectedOptions?.length
HasSelectedOptions(update) == update.value = "one"

\* a poll update that is stored whatever it selects
updateMessageWithPollUpdateAlways(pollUpdates, update) ==
    Append(OtherAuthors(pollUpdates, getKeyAuthor(update.key)), update)

updateMessageWithPollUpdate(pollUpdates, update) ==
    IF HasSelectedOptions(update)
    THEN Append(OtherAuthors(pollUpdates, getKeyAuthor(update.key)), update)
    ELSE OtherAuthors(pollUpdates, getKeyAuthor(update.key))

updateMessageWithEventResponse(eventResponses, update) ==
    Append(OtherAuthors(eventResponses, getKeyAuthor(update.key)), update)

\* msg.<field> || []
ListOf(msg, field) == IF field \in msg.defined THEN msg[field] ELSE <<>>

NoLatest == [a \in Authors |-> <<>>]

\* a message without any of the three lists; latest records, for each list
\* and author, the update of that author's last call
UpdateIdle ==
    [defined |-> {}, reactions |-> <<>>, pollUpdates |-> <<>>,
     eventResponses |-> <<>>, calls |-> 0,
     latest |-> [reactions |-> NoLatest, pollUpdates |-> NoLatest,
                 eventResponses |-> NoLatest]]

UpdateInit == upd = UpdateIdle

Reaction ==
    /\ upd # <<>>
    /\ upd.calls < MaxUpdates
    /\ \E key \in UpdateKeys, text \in {"undefined", "+"} :
        \E reaction \in {Update(key, text, upd.calls + 1)} :
            upd' = [upd EXCEPT
                !.reactions = updateMessageWithReaction(ListOf(upd, "reactions"),
                                                        reaction),
                !.defined = @ \cup {"reactions"},
                !.calls = @ + 1,
                !.latest.reactions[getKeyAuthor(key)] =
                    <<[reaction EXCEPT !.value = ReactionText(@)]>>]
    /\ UNCHANGED <<coreVars, biz, sync, dl, node, carousel>>

PollUpdate ==
    /\ upd # <<>>
    /\ upd.calls < MaxUpdates
    /\ \E key \in UpdateKeys, vote \in {"undefined", "empty", "one"} :
        \E update \in {Update(key, vote, upd.calls + 1)} :
            upd' = [upd EXCEPT
                !.pollUpdates = updateMessageWithPollUpdate(
                                    ListOf(upd, "pollUpdates"), update),
                !.defined = @ \cup {"pollUpdates"},
                !.calls = @ + 1,
                !.latest.pollUpdates[getKeyAuthor(key)] = <<update>>]
    /\ UNCHANGED <<coreVars, biz, sync, dl, node, carousel>>

EventResponse ==
    /\ upd # <<>>
    /\ upd.calls < MaxUpdates
    /\ \E key \in UpdateKeys :
        \E update \in {Update(key, "going", upd.calls + 1)} :
            upd' = [upd EXCEPT
                !.eventResponses = updateMessageWithEventResponse(
                                       ListOf(upd, "eventResponses"), update),
                !.defined = @ \cup {"eventResponses"},
                !.calls = @ + 1,
                !.latest.eventResponses[getKeyAuthor(key)] = <<update>>]
    /\ UNCHANGED <<coreVars, biz, sync, dl, node, carousel>>

UpdateNext == Reaction \/ PollUpdate \/ EventResponse

InitUpdate == UpdateInit /\ CoreOff /\ BizOff /\ SyncOff /\ DownloadOff /\ NodeOff
              /\ CarouselOff

SpecUpdate == InitUpdate /\ [][UpdateNext]_vars

EntriesOf(list, author) ==
    SelectSeq(list, LAMBDA r : getKeyAuthor(r.key) = author)

\* C28: after any sequence of the three calls each list holds, for each
\* author, at most one entry, which is that author's most recent update; an
\* author whose most recent poll update selects nothing has no entry
C28_OneEntryPerAuthor ==
    \A a \in Authors :
        /\ EntriesOf(upd.reactions, a) = upd.latest.reactions[a]
        /\ EntriesOf(upd.eventResponses, a) = upd.latest.eventResponses[a]
        /\ EntriesOf(upd.pollUpdates, a) =
               SelectSeq(upd.latest.pollUpdates[a], HasSelectedOptions)

\* reached: the last poll update of "a", sent after other updates through the
\* key of the direct chat, selects nothing, and the list is left empty
C28_Witness ==
    /\ upd.calls = MaxUpdates
    /\ upd.latest.pollUpdates["a"] # <<>>
    /\ ~HasSelectedOptions(upd.latest.pollUpdates["a"][1])
    /\ upd.latest.pollUpdates["a"][1].id > 1
    /\ upd.latest.pollUpdates["a"][1].key.participant = ""
    /\ upd.pollUpdates = <<>>
    /\ "pollUpdates" \in upd.defined

-----------------------------------------------------------------------------
(* getBinaryNodeChildren and getBinaryNodeChild: the child index of a node    *)

MaxChildren == 3
MaxNodeSteps == 4

NodeTags == {"item", "participant"}

\* a child node; id tells children of one tag apart
Child(tag, id) == [tag |-> tag, id |-> id]

\* for (const child of node.content) { ...index.get(child.tag)... arr.push(child) }
BuildIndex(content) ==
    [t \in NodeTags |-> SelectSeq(content, LAMBDA child : child.tag = t)]

\* the index of a call: the cached one, or one built from node.content
IndexOf(n) == IF n.cached THEN n.index ELSE BuildIndex(n.content)

\* !node || !Array.isArray(node.content) ? [] : index.get(childTag) || []
getBinaryNodeChildren(n, childTag) ==
    IF n.isNull \/ ~n.isArray THEN <<>> ELSE IndexOf(n)[childTag]

\* list[0], undefined as the empty sequence
FirstChild(list) == IF list = <<>> THEN <<>> ELSE <<list[1]>>

\* getBinaryNodeChildren(node, childTag)[0], undefined as the empty sequence
getBinaryNodeChild(n, childTag) == FirstChild(getBinaryNodeChildren(n, childTag))

NodeIdle ==
    [isNull |-> FALSE, isArray |-> TRUE, content |-> <<>>, cached |-> FALSE,
     index |-> BuildIndex(<<>>), steps |-> 0, called |-> FALSE, single |-> FALSE,
     tag |-> "item", result |-> <<>>, changed |-> FALSE]

\* a null node, a node with text content, or a node with up to two children
NodeInit ==
    \/ node = [NodeIdle EXCEPT !.isNull = TRUE, !.isArray = FALSE]
    \/ node = [NodeIdle EXCEPT !.isArray = FALSE]
    \/ \E t1 \in NodeTags, t2 \in NodeTags :
        \/ node = NodeIdle
        \/ node = [NodeIdle EXCEPT !.content = <<Child(t1, 1)>>]
        \/ node = [NodeIdle EXCEPT !.content = <<Child(t1, 1), Child(t2, 2)>>]

\* the index is stored when the call had to build it
AfterCall(n) ==
    IF n.isNull \/ ~n.isArray \/ n.cached THEN n
    ELSE [n EXCEPT !.cached = TRUE, !.index = BuildIndex(n.content)]

\* getBinaryNodeChildren(node, tag)
NodeChildren ==
    /\ node # <<>>
    /\ node.steps < MaxNodeSteps
    /\ \E tag \in NodeTags :
        node' = [AfterCall(node) EXCEPT
                    !.steps = @ + 1, !.called = TRUE, !.single = FALSE,
                    !.tag = tag, !.result = getBinaryNodeChildren(node, tag)]
    /\ UNCHANGED <<coreVars, biz, sync, dl, upd, carousel>>

\* getBinaryNodeChild(node, tag)
NodeChild ==
    /\ node # <<>>
    /\ node.steps < MaxNodeSteps
    /\ \E tag \in NodeTags :
        node' = [AfterCall(node) EXCEPT
                    !.steps = @ + 1, !.called = TRUE, !.single = TRUE,
                    !.tag = tag, !.result = getBinaryNodeChild(node, tag)]
    /\ UNCHANGED <<coreVars, biz, sync, dl, upd, carousel>>

\* the owner of the node changes node.content: a child is pushed, the first
\* child is removed, or the content becomes a new array or a text
NodeChange ==
    /\ node # <<>>
    /\ ~node.isNull
    /\ node.steps < MaxNodeSteps
    /\ \/ /\ node.isArray
          /\ Len(node.content) < MaxChildren
          /\ \E t \in NodeTags :
                node' = [node EXCEPT
                    !.content = Append(@, Child(t, node.steps + 3)),
                    !.steps = @ + 1, !.called = FALSE, !.changed = TRUE]
       \/ /\ node.isArray
          /\ Len(node.content) > 0
          /\ node' = [node EXCEPT !.content = Tail(@), !.steps = @ + 1,
                                  !.called = FALSE, !.changed = TRUE]
       \/ \E t \in NodeTags :
            node' = [node EXCEPT !.content = <<Child(t, node.steps + 3)>>,
                                 !.isArray = TRUE, !.steps = @ + 1,
                                 !.called = FALSE, !.changed = TRUE]
       \/ /\ node.isArray
          /\ node' = [node EXCEPT !.content = <<>>, !.isArray = FALSE,
                                  !.steps = @ + 1, !.called = FALSE,
                                  !.changed = TRUE]
    /\ UNCHANGED <<coreVars, biz, sync, dl, upd, carousel>>

NodeNext == NodeChildren \/ NodeChild \/ NodeChange

InitNode == NodeInit /\ CoreOff /\ BizOff /\ SyncOff /\ DownloadOff /\ UpdateOff
            /\ CarouselOff

SpecNode == InitNode /\ [][NodeNext]_vars

\* node.content.filter(child => child.tag === tag) at the time of the call
CurrentChildren(n, tag) ==
    IF n.isNull \/ ~n.isArray THEN <<>>
    ELSE SelectSeq(n.content, LAMBDA child : child.tag = tag)

\* C29: whatever calls and changes of node.content came before, a call
\* returns the children now in node.content that carry the tag, in content
\* order, and getBinaryNodeChild returns the first of them
C29_ChildrenOfCurrentContent ==
    (node # <<>> /\ node.called) =>
        node.result = IF node.single
                      THEN FirstChild(CurrentChildren(node, node.tag))
                      ELSE CurrentChildren(node, node.tag)

\* what holds: a call returns the children by tag of the content the node
\* had when its index was built, and of the current content as long as the
\* content has not changed
C29_ChildrenOfIndexedContent ==
    (node # <<>> /\ node.called) =>
        /\ (~node.isNull /\ node.isArray) =>
               /\ node.cached
               /\ node.result = IF node.single THEN FirstChild(node.index[node.tag])
                                ELSE node.index[node.tag]
        /\ ~node.changed =>
               node.result = IF node.single
                             THEN FirstChild(CurrentChildren(node, node.tag))
                             ELSE CurrentChildren(node, node.tag)

-----------------------------------------------------------------------------
(* the cards branch: one task for each card, run by Promise.all               *)

\* thrown by a read of a const binding whose initializer is still running
ReferenceError == [status |-> 0, msg |-> "ReferenceError", arg |-> 0]

\* a card of the descriptor: header is the kind of content its media or
\* product preparation yields ("none" when the preparation fails)
CarouselCard(header, text, caption, thumbnail, audioFooter, footer) ==
    [header |-> header, text |-> text, caption |-> caption,
     thumbnail |-> thumbnail, audioFooter |-> audioFooter, footer |-> footer]

CarouselCards ==
    {CarouselCard("image", FALSE, TRUE, FALSE, FALSE, TRUE),
     CarouselCard("image", TRUE, FALSE, FALSE, FALSE, FALSE),
     CarouselCard("product", FALSE, TRUE, FALSE, FALSE, TRUE),
     CarouselCard("image", FALSE, TRUE, TRUE, FALSE, FALSE),
     CarouselCard("image", FALSE, TRUE, FALSE, TRUE, TRUE),
     CarouselCard("image", FALSE, FALSE, FALSE, FALSE, FALSE),
     CarouselCard("none", FALSE, TRUE, FALSE, FALSE, TRUE)}

\* the carouselCard a task builds; card is the index of its descriptor card
BuiltCard(i) ==
    [card |-> i, header |-> "none", body |-> "none", footer |-> FALSE]

NoTop == [jpegThumbnail |-> 0, footer |-> 0]

CarouselStart(cards, text, footer) ==
    [cards |-> cards, text |-> text, footer |-> footer,
     pc |-> [i \in 1..Len(cards) |-> "header"],
     built |-> [i \in 1..Len(cards) |-> BuiltCard(i)],
     top |-> NoTop, status |-> "running", err |-> NoErr, m |-> <<>>,
     order |-> <<>>]

\* a task throws: Promise.all rejects with the first rejection
Reject(c, i, err) ==
    [c EXCEPT !.pc[i] = "failed", !.order = Append(@, i),
              !.status = IF c.status = "running" THEN "rejected" ELSE @,
              !.err = IF c.status = "running" THEN err ELSE @]

\* interactiveMessage.<field> = ... on an object that exists while the
\* tasks run
SharedWriteInitialized(c, i, field) ==
    [ok |-> TRUE, c |-> [c EXCEPT !.top[field] = i]]

\* interactiveMessage.<field> = ... inside a task: the tasks run within the
\* initializer of const interactiveMessage, so reading the binding throws
SharedWrite(c, i, field) == [ok |-> FALSE, c |-> Reject(c, i, ReferenceError)]

\* the end of a task: the audio footer is awaited, or the text footer set
AfterHeader(c, i) ==
    IF c.cards[i].audioFooter THEN [c EXCEPT !.pc[i] = "footer"]
    ELSE [c EXCEPT !.pc[i] = "done", !.order = Append(@, i),
                   !.built[i].footer = c.cards[i].footer]

\* the task of card i from the end of its header preparation to its next
\* await or its return
HeaderStep(c, i) ==
    LET card == c.cards[i]
        c1 == IF card.caption
              THEN [c EXCEPT !.built[i].header = "set", !.built[i].body = "caption"]
              ELSE c
        w == IF card.thumbnail THEN SharedWrite(c1, i, "jpegThumbnail")
             ELSE [ok |-> TRUE, c |-> c1]
    IN  IF card.header \notin {"image", "video", "product"}
        THEN Reject(c, i, Boom("Invalid media type for carousel card", 400))
        ELSE IF card.text
        THEN AfterHeader([c EXCEPT !.built[i].body = "text"], i)
        ELSE IF ~w.ok THEN w.c
        ELSE IF ~card.caption THEN Reject(w.c, i, TypeError)
        ELSE AfterHeader([w.c EXCEPT !.built[i].header = card.header], i)

\* the task of card i after its audio footer has been prepared as audio
FooterStep(c, i) ==
    LET w == SharedWrite(c, i, "footer")
    IN  IF w.ok THEN [w.c EXCEPT !.pc[i] = "done", !.order = Append(@, i)]
        ELSE w.c

\* Promise.all resolves: the object literal, then body and footer of the
\* descriptor
CarouselFinish(c) ==
    [c EXCEPT !.status = "resolved",
              !.m = [cards |-> c.built,
                     jpegThumbnail |-> c.top.jpegThumbnail,
                     body |-> c.text,
                     footer |-> IF c.footer THEN -1 ELSE c.top.footer]]

CarouselInit ==
    \E cards \in SeqsUpTo(CarouselCards, MaxCards), text \in BOOLEAN,
       footer \in BOOLEAN :
        /\ cards # <<>>
        /\ carousel = CarouselStart(cards, text, footer)

CardHeader ==
    /\ carousel # <<>>
    /\ \E i \in 1..Len(carousel.cards) :
        /\ carousel.pc[i] = "header"
        /\ carousel' = HeaderStep(carousel, i)
    /\ UNCHANGED <<coreVars, biz, sync, dl, upd, node>>

CardFooter ==
    /\ carousel # <<>>
    /\ \E i \in 1..Len(carousel.cards) :
        /\ carousel.pc[i] = "footer"
        /\ carousel' = FooterStep(carousel, i)
    /\ UNCHANGED <<coreVars, biz, sync, dl, upd, node>>

CarouselResolve ==
    /\ carousel # <<>>
    /\ carousel.status = "running"
    /\ \A i \in 1..Len(carousel.cards) : carousel.pc[i] = "done"
    /\ carousel' = CarouselFinish(carousel)
    /\ UNCHANGED <<coreVars, biz, sync, dl, upd, node>>

CarouselNext == CardHeader \/ CardFooter \/ CarouselResolve

InitCarousel == CarouselInit /\ CoreOff /\ BizOff /\ SyncOff /\ DownloadOff
                /\ UpdateOff /\ NodeOff

SpecCarousel == InitCarousel /\ [][CarouselNext]_vars

\* the tasks run one after the other, in the order of the cards
RunCard(c, i) ==
    IF HeaderStep(c, i).pc[i] = "footer" THEN FooterStep(HeaderStep(c, i), i)
    ELSE HeaderStep(c, i)

RECURSIVE RunCards(_, _)
RunCards(c, i) == IF i > Len(c.cards) THEN c ELSE RunCards(RunCard(c, i), i + 1)

InCardOrder(cards, text, footer) ==
    CarouselFinish(RunCards(CarouselStart(cards, text, footer), 1)).m

\* C30: the interactive message compiled from a carousel is the one that the
\* tasks give when run in the order of the cards, whatever the order they
\* completed in: no card sets the top-level jpegThumbnail or footer, and
\* every card carries its own header, body and footer
C30_CarouselIndependentOfOrder ==
    (carousel # <<>> /\ carousel.status = "resolved") =>
        /\ carousel.m = InCardOrder(carousel.cards, carousel.text, carousel.footer)
        /\ carousel.m.jpegThumbnail = 0
        /\ carousel.m.footer = IF carousel.footer THEN -1 ELSE 0
        /\ \A i \in 1..Len(carousel.cards) :
            /\ carousel.m.cards[i].card = i
            /\ carousel.m.cards[i].footer = carousel.cards[i].footer
            /\ carousel.m.cards[i].body =
                   IF carousel.cards[i].text THEN "text" ELSE "caption"

\* reached: a carousel compiled from two cards whose tasks completed in
\* the reverse of the card order
C30_Witness ==
    /\ carousel # <<>>
    /\ carousel.status = "resolved"
    /\ Len(carousel.cards) = 2
    /\ carousel.order = <<2, 1>>
    /\ carousel.cards[1] # carousel.cards[2]

=============================================================================
